---- MODULE Spec2Model ----
(***************************************************************************)
(* Model of the cbt-exam session lifecycle and scoring core.               *)
(*                                                                         *)
(* The store is one PostgreSQL database (READ COMMITTED, the default of    *)
(* database/sql's BeginTx(ctx, nil)).  Every statement the Go code sends   *)
(* is one atomic step; a handler is a sequence of such steps, so that      *)
(* handlers of concurrent requests interleave between statements.  Rows    *)
(* written inside a transaction become visible to other connections at     *)
(* COMMIT; statements sent through r.db outside a transaction commit at    *)
(* once.                                                                   *)
(***************************************************************************)
EXTENDS Integers, Sequences, FiniteSets

VARIABLES exams, examTimes, questions, sessions, answers, scores, calls, lastCommit, tin, tout, now, issued

vars == <<exams, examTimes, questions, sessions, answers, scores, calls, lastCommit, tin, tout, now, issued>>

---------------------------------------------------------------------------
(* Bounds of the model.                                                    *)

StartCalls == 2

LedgerCalls == 2

ScoreCalls == 2

MaxTally == 5

SlotCount == 2

MaxSessions == 1

ExamCalls == 1

---------------------------------------------------------------------------
(* Identifiers and enumerations.                                           *)

Exams == {"e1", "e2"}

(* The id columns of the store are of type UUID (part_005:4-6, 17-18,      *)
(* part_002:5): Exams and the row ids of sessions stand for UUIDs.  An id  *)
(* that is no UUID, as the ids "non-existent-exam" of exam_test.go:180 and *)
(* "non-existent-session" of scoring_test.go:151, is refused by the store  *)
(* when it is compared with such a column (SQLSTATE 22P02): the statement  *)
(* returns an error that is not sql.ErrNoRows.                             *)
MalformedExam == "non-existent-exam"

ExamIds == Exams \cup {MalformedExam}

MalformedSession == 0 - 2

Students == {"s1", "s2"}

QuestionIds == {"q1", "q2"}

Choices == {"", "A", "B"}

Keys == {"A", "B"}

ExamStateCreated == "CREATED"

ExamStateActive == "ACTIVE"

ExamStateFinished == "FINISHED"

NoExam == "NONE"

SessionStatusStarted == "STARTED"

SessionStatusInProgress == "IN_PROGRESS"

SessionStatusFinished == "FINISHED"

SessionStatusTimeout == "TIMEOUT"

Live == {SessionStatusStarted, SessionStatusInProgress}

Terminal == {SessionStatusFinished, SessionStatusTimeout}

SessionStatusSet == Live \cup Terminal

OK == "OK"

NotFound == "NotFound"

FailedPrecondition == "FailedPrecondition"

AlreadyExists == "AlreadyExists"

Internal == "Internal"

RECURSIVE Pow2(_)
Pow2(n) == IF n = 0 THEN 1 ELSE 2 * Pow2(n - 1)

---------------------------------------------------------------------------
(* The request slots.  A slot holds one in-flight RPC: the handler's       *)
(* position (pc), its request fields and locals, and the status it         *)
(* returned.                                                               *)

NoScore == [total |-> 0, correct |-> 0, wrong |-> 0, unanswered |-> 0, sm |-> 0, se |-> 0, exam |-> "", student |-> ""]

(* An instant: whole seconds s and nanoseconds n within the second, counted *)
(* from the instant the model starts at.                                   *)
Epoch == [s |-> 0, n |-> 0]

NoTime == [minutes |-> 0, seconds |-> 0]

IdleCall == [op |-> "none", pc |-> "idle", exam |-> "", student |-> "", session |-> 0, question |-> "", choice |-> "", seen |-> "", code |-> "", msg |-> "", resp |-> "", score |-> NoScore, later |-> FALSE, start |-> Epoch, rt |-> NoTime, rows |-> <<>>, created |-> 0, choices |-> 0, classes |-> ""]

(* service.go:174-187: the status of a returned session, as the proto enum *)
convertStatusToProto(status) ==
    IF status = SessionStatusStarted THEN "SESSION_STATUS_STARTED"
    ELSE IF status = SessionStatusInProgress THEN "SESSION_STATUS_IN_PROGRESS"
    ELSE IF status = SessionStatusFinished THEN "SESSION_STATUS_FINISHED"
    ELSE IF status = SessionStatusTimeout THEN "SESSION_STATUS_TIMEOUT"
    ELSE "SESSION_STATUS_UNSPECIFIED"

Done(c, code, msg) == [calls[c] EXCEPT !.pc = "done", !.code = code, !.msg = msg]

Goto(c, pc) == [calls[c] EXCEPT !.pc = pc]

(* exam_sessions rows: the row id is the position in the sequence; tx is   *)
(* the slot whose open transaction inserted the row, 0 once committed,     *)
(* Deleted once the row has been deleted (ids are never used again).       *)
SessionIds == 1 .. Len(sessions)

Deleted == 0 - 1

Committed(i) == sessions[i].tx = 0

(* The ids of exams and questions are drawn by gen_random_uuid() and never *)
(* come twice: issued holds the ids handed out so far, from the start the  *)
(* ids of the rows the store holds.                                        *)
Given(ex, qs) == {e \in Exams : ex[e] # NoExam} \cup {q.id : q \in qs}

---------------------------------------------------------------------------
(* Session repository: validations.                                        *)

(* IsExamActive taking every exam that has left CREATED for active. *)
IsExamActiveNotCreated(e) ==
    IF e \notin Exams THEN "failed to check exam status"
    ELSE IF exams[e] = NoExam THEN "ErrExamNotFound"
    ELSE IF exams[e] # ExamStateCreated THEN "true" ELSE "false"

(* repository.go:233-248: SELECT status = 'ACTIVE' FROM exams WHERE id =   *)
(* $1.  No row is ErrExamNotFound (240-242); any other error of the query, *)
(* as the one for an id that is no UUID, is wrapped as "failed to check    *)
(* exam status" (243-245).                                                 *)
IsExamActive(e) ==
    IF e \notin Exams THEN "failed to check exam status"
    ELSE IF exams[e] = NoExam THEN "ErrExamNotFound"
    ELSE IF exams[e] = ExamStateActive THEN "true" ELSE "false"

(* SELECT COUNT FROM exam_sessions WHERE student_id = $1 AND status IN  *)
(* ('STARTED','IN_PROGRESS'), as seen by slot c (c = 0: outside any tx).   *)
ActiveCount(st, c) == Cardinality({i \in SessionIds : /\ sessions[i].student = st
                                                       /\ sessions[i].status \in Live
                                                       /\ sessions[i].tx \in {0, c}})

(* HasActiveSession counting IN_PROGRESS sessions only. *)
HasActiveSessionInProgress(st) ==
    \E i \in SessionIds : sessions[i].student = st /\ sessions[i].status = SessionStatusInProgress /\ Committed(i)

(* repository.go:250-263 *)
HasActiveSession(st) == ActiveCount(st, 0) > 0

(* The unique key as a partial index over live sessions only. *)
SessionKeyTakenLive(e, st) ==
    \E i \in SessionIds : sessions[i].exam = e /\ sessions[i].student = st /\ Committed(i) /\ sessions[i].status \in Live

(* UNIQUE (exam_id, student_id) on exam_sessions. *)
SessionKeyTaken(e, st) == \E i \in SessionIds : sessions[i].exam = e /\ sessions[i].student = st /\ Committed(i)

SessionKeyPending(e, st, c) == \E i \in SessionIds : sessions[i].exam = e /\ sessions[i].student = st /\ sessions[i].tx > 0 /\ sessions[i].tx # c

---------------------------------------------------------------------------
(* sessionService.StartSession, one action per store round trip.           *)

(* The student holds a committed live session on an exam other than e.     *)
LiveElsewhere(e, st) == \E i \in SessionIds : /\ Committed(i)
                                              /\ sessions[i].student = st
                                              /\ sessions[i].status \in Live
                                              /\ sessions[i].exam # e

(* service.go:30-40: the request arrives and the service asks             *)
(* IsExamActive: ErrExamNotFound is answered NotFound, any other error     *)
(* Internal "failed to check exam status", an exam that is not active      *)
(* FailedPrecondition.  For a StartSession call, seen is history only: it  *)
(* records that on arrival the exam was Active and the student live on     *)
(* another exam.                                                           *)
StartSession_IsExamActive(c, e, st) ==
    /\ calls[c].pc = "idle"
    /\ LET r == IsExamActive(e)
           call == [IdleCall EXCEPT !.op = "StartSession", !.exam = e, !.student = st,
                                    !.seen = IF IsExamActive(e) = "true" /\ LiveElsewhere(e, st) THEN "live" ELSE ""]
       IN calls' = [calls EXCEPT ![c] =
             IF r = "ErrExamNotFound" THEN [call EXCEPT !.pc = "done", !.code = NotFound, !.msg = "exam not found"]
             ELSE IF r = "failed to check exam status" THEN [call EXCEPT !.pc = "done", !.code = Internal, !.msg = "failed to check exam status"]
             ELSE IF r = "false" THEN [call EXCEPT !.pc = "done", !.code = FailedPrecondition, !.msg = "exam is not active"]
             ELSE [call EXCEPT !.pc = "ss_hasActive"]]
    /\ UNCHANGED <<exams, examTimes, questions, sessions, answers, scores, lastCommit, tin, tout, now, issued>>

(* service.go:42-58: HasActiveSession; the session struct is then built    *)
(* with StartTime: time.Now().                                             *)
StartSession_HasActiveSession(c) ==
    /\ calls[c].pc = "ss_hasActive"
    /\ calls' = [calls EXCEPT ![c] =
          IF HasActiveSession(calls[c].student)
          THEN Done(c, FailedPrecondition, "student already has an active session")
          ELSE [Goto(c, "ss_txExam") EXCEPT !.start = now]]
    /\ UNCHANGED <<exams, examTimes, questions, sessions, answers, scores, lastCommit, tin, tout, now, issued>>

(* repository.go:23-44: BeginTx and the exam check inside the transaction: *)
(* the same query as IsExamActive, with the same three errors.             *)
(* service.go:60-62 maps every repository error to Internal.               *)
StartSession_TxExam(c) ==
    /\ calls[c].pc = "ss_txExam"
    /\ LET r == IsExamActive(calls[c].exam)
       IN calls' = [calls EXCEPT ![c] =
             IF r = "ErrExamNotFound" THEN Done(c, Internal, "failed to start session: exam not found")
             ELSE IF r = "failed to check exam status" THEN Done(c, Internal, "failed to start session: failed to check exam status")
             ELSE IF r = "false" THEN Done(c, Internal, "failed to start session: exam is not active")
             ELSE Goto(c, "ss_txCount")]
    /\ UNCHANGED <<exams, examTimes, questions, sessions, answers, scores, lastCommit, tin, tout, now, issued>>

(* repository.go:46-58 *)
StartSession_TxCount(c) ==
    /\ calls[c].pc = "ss_txCount"
    /\ calls' = [calls EXCEPT ![c] =
          IF ActiveCount(calls[c].student, c) > 0
          THEN Done(c, Internal, "failed to start session: student already has an active session")
          ELSE Goto(c, "ss_txInsert")]
    /\ UNCHANGED <<exams, examTimes, questions, sessions, answers, scores, lastCommit, tin, tout, now, issued>>

(* The INSERT writing an end_time into the new row. *)
StartSession_TxInsertEnded(c) ==
    /\ calls[c].pc = "ss_txInsert"
    /\ ~SessionKeyPending(calls[c].exam, calls[c].student, c)
    /\ IF exams[calls[c].exam] = NoExam \/ SessionKeyTaken(calls[c].exam, calls[c].student)
       THEN /\ calls' = [calls EXCEPT ![c] = Done(c, Internal, "failed to start session: failed to create session")]
            /\ UNCHANGED sessions
       ELSE /\ sessions' = Append(sessions, [exam |-> calls[c].exam, student |-> calls[c].student,
                                              status |-> SessionStatusStarted, start |-> calls[c].start, ended |-> TRUE, endTime |-> Epoch, tx |-> c])
            /\ calls' = [calls EXCEPT ![c] = [Goto(c, "ss_txCommit") EXCEPT !.session = Len(sessions) + 1]]
    /\ UNCHANGED <<exams, examTimes, questions, answers, scores, lastCommit, tin, tout, now, issued>>

(* repository.go:60-76: the INSERT.  It waits while another open           *)
(* transaction holds an uncommitted row with the same (exam_id,            *)
(* student_id), fails on the unique and foreign keys, else adds the row.   *)
StartSession_TxInsert(c) ==
    /\ calls[c].pc = "ss_txInsert"
    /\ ~SessionKeyPending(calls[c].exam, calls[c].student, c)
    /\ IF exams[calls[c].exam] = NoExam \/ SessionKeyTaken(calls[c].exam, calls[c].student)
       THEN /\ calls' = [calls EXCEPT ![c] = Done(c, Internal, "failed to start session: failed to create session")]
            /\ UNCHANGED sessions
       ELSE /\ sessions' = Append(sessions, [exam |-> calls[c].exam, student |-> calls[c].student,
                                              status |-> SessionStatusStarted, start |-> calls[c].start, ended |-> FALSE, endTime |-> Epoch, tx |-> c])
            /\ calls' = [calls EXCEPT ![c] = [Goto(c, "ss_txCommit") EXCEPT !.session = Len(sessions) + 1]]
    /\ UNCHANGED <<exams, examTimes, questions, answers, scores, lastCommit, tin, tout, now, issued>>

(* repository.go:78: COMMIT publishes the row; service.go:64 returns the   *)
(* struct built at service.go:53-58, whose status is Started.              *)
StartSession_TxCommit(c) ==
    /\ calls[c].pc = "ss_txCommit"
    /\ sessions' = [sessions EXCEPT ![calls[c].session].tx = 0]
    /\ calls' = [calls EXCEPT ![c] = [Done(c, OK, "") EXCEPT !.resp = convertStatusToProto(SessionStatusStarted)]]
    /\ UNCHANGED <<exams, examTimes, questions, answers, scores, lastCommit, tin, tout, now, issued>>

---------------------------------------------------------------------------
(* Session repository: status updates and the answer ledger.               *)

(* The types PostgreSQL deduces for parameter $1 of the UPDATE of          *)
(* repository.go:119-126.  lib/pq prepares a statement without naming the  *)
(* types of its parameters, so the server deduces them from the uses: text *)
(* where the CASE compares $1 with the untyped literals 'FINISHED' and     *)
(* 'TIMEOUT', session_status where $1 is assigned to the column status.    *)
StatusParamTypes == {"text", "session_status"}

(* The row an UPDATE of exam_sessions leaves: the status, and the end time *)
(* when the status is FINISHED or TIMEOUT.  ended tells whether end_time   *)
(* is set, endTime holds its value.                                        *)
StatusWritten(row, status) ==
    [row EXCEPT !.status = status,
                !.ended = IF status \in {SessionStatusFinished, SessionStatusTimeout} THEN TRUE ELSE @,
                !.endTime = IF status \in {SessionStatusFinished, SessionStatusTimeout} THEN now ELSE @]

(* The UPDATE with its parameter cast to session_status and without its    *)
(* WHERE id = $2.                                                          *)
UpdateSessionStatusAll(rows, id, status) ==
    [err |-> "", rows |-> [i \in DOMAIN rows |-> StatusWritten(rows[i], status)]]

(* The UPDATE with its parameter cast to session_status: the statement is  *)
(* prepared and runs.                                                      *)
UpdateSessionStatusCast(rows, id, status) ==
    IF ~(id \in DOMAIN rows /\ rows[id].tx = 0) THEN [err |-> "ErrSessionNotFound", rows |-> rows]
    ELSE [err |-> "", rows |-> [rows EXCEPT ![id] = StatusWritten(@, status)]]

(* repository.go:118-143: UPDATE exam_sessions SET status = $1, end_time = *)
(* CASE WHEN $1 IN ('FINISHED','TIMEOUT') THEN now ELSE end_time END       *)
(* WHERE id = $2.  The types deduced for $1 differ, so the server refuses  *)
(* the statement when it is parsed (SQLSTATE 42P08, inconsistent types     *)
(* deduced for parameter $1): ExecContext returns the error on every call  *)
(* (repository.go:128-131) and no row is written.  The statement carries   *)
(* no condition on the old status; no row affected is ErrSessionNotFound.  *)
UpdateSessionStatus(rows, id, status) ==
    IF Cardinality(StatusParamTypes) # 1 THEN [err |-> "failed to update session status", rows |-> rows]
    ELSE IF ~(id \in DOMAIN rows /\ rows[id].tx = 0) THEN [err |-> "ErrSessionNotFound", rows |-> rows]
    ELSE [err |-> "", rows |-> [rows EXCEPT ![id] = StatusWritten(@, status)]]

(* The upsert with ON CONFLICT DO NOTHING in place of DO UPDATE.           *)
UpsertDoNothing(rows, sid, q, ch) ==
    IF \E r \in rows : r.session = sid /\ r.question = q
    THEN rows
    ELSE rows \cup {[session |-> sid, question |-> q, choice |-> ch]}

(* repository.go:174-190: INSERT INTO session_answers ... ON CONFLICT      *)
(* (session_id, question_id) DO UPDATE SET selected_choice = EXCLUDED...   *)
Upsert(rows, sid, q, ch) ==
    IF \E r \in rows : r.session = sid /\ r.question = q
    THEN {IF r.session = sid /\ r.question = q THEN [r EXCEPT !.choice = ch] ELSE r : r \in rows}
    ELSE rows \cup {[session |-> sid, question |-> q, choice |-> ch]}

(* The row lock of an uncommitted write to (session_id, question_id): a    *)
(* second writer of the same key waits for the first to commit.            *)
AnswerKeyLocked(sid, q, c) ==
    \E d \in DOMAIN calls : /\ d # c
                            /\ calls[d].op = "SubmitAnswer"
                            /\ calls[d].pc \in {"sa_update", "sa_txCommit"}
                            /\ calls[d].session = sid
                            /\ calls[d].question = q

SessionVisible(sid) == sid \in SessionIds /\ Committed(sid)

---------------------------------------------------------------------------
(* sessionService.SubmitAnswer (service.go:79-102) over                    *)
(* postgresRepository.SubmitAnswer (repository.go:149-201).                *)

(* repository.go:150-172: BeginTx, SELECT status FROM exam_sessions WHERE  *)
(* id = $1.  An error of the query other than sql.ErrNoRows, as the one    *)
(* for an id that is no UUID, is wrapped as "failed to check session       *)
(* status" (166-168) and answered Internal by service.go:93-94; no row is  *)
(* ErrSessionNotFound (163-165), a status outside STARTED and IN_PROGRESS  *)
(* ErrInvalidSessionState (170-172).                                       *)
SubmitAnswer_TxStatus(c, sid, q, ch) ==
    /\ calls[c].pc = "idle"
    /\ LET call == [IdleCall EXCEPT !.op = "SubmitAnswer", !.session = sid, !.question = q, !.choice = ch]
       IN calls' = [calls EXCEPT ![c] =
             IF sid = MalformedSession
             THEN [call EXCEPT !.pc = "done", !.code = Internal, !.msg = "failed to submit answer"]
             ELSE IF ~SessionVisible(sid)
             THEN [call EXCEPT !.pc = "done", !.code = NotFound, !.msg = "session not found"]
             ELSE IF sessions[sid].status \notin Live
             THEN [call EXCEPT !.pc = "done", !.code = FailedPrecondition, !.msg = "session is not in valid state for answering"]
             ELSE [call EXCEPT !.pc = "sa_txUpsert", !.seen = sessions[sid].status]]
    /\ UNCHANGED <<exams, examTimes, questions, sessions, answers, scores, lastCommit, tin, tout, now, issued>>

(* The upsert of a SubmitAnswer that goes on to its COMMIT whatever the    *)
(* status read: the session is not advanced.                               *)
SubmitAnswer_TxUpsertNoAdvance(c) ==
    /\ calls[c].pc = "sa_txUpsert"
    /\ ~AnswerKeyLocked(calls[c].session, calls[c].question, c)
    /\ calls' = [calls EXCEPT ![c] =
          IF ~(\E r \in questions : r.id = calls[c].question) \/ ~SessionVisible(calls[c].session)
          THEN Done(c, Internal, "failed to submit answer")
          ELSE Goto(c, "sa_txCommit")]
    /\ UNCHANGED <<exams, examTimes, questions, sessions, answers, scores, lastCommit, tin, tout, now, issued>>

(* repository.go:174-190: the upsert inside the transaction.  The written  *)
(* row stays invisible to other connections until COMMIT.                  *)
SubmitAnswer_TxUpsert(c) ==
    /\ calls[c].pc = "sa_txUpsert"
    /\ ~AnswerKeyLocked(calls[c].session, calls[c].question, c)
    /\ calls' = [calls EXCEPT ![c] =
          IF ~(\E r \in questions : r.id = calls[c].question) \/ ~SessionVisible(calls[c].session)
          THEN Done(c, Internal, "failed to submit answer")
          ELSE IF calls[c].seen = SessionStatusStarted THEN Goto(c, "sa_update") ELSE Goto(c, "sa_txCommit")]
    /\ UNCHANGED <<exams, examTimes, questions, sessions, answers, scores, lastCommit, tin, tout, now, issued>>

(* repository.go:192-198: when the status read was STARTED,                *)
(* r.UpdateSessionStatus runs on r.db, not on tx: it is its own statement  *)
(* on another connection.  Its error is returned as it is, the deferred    *)
(* tx.Rollback() discards the upserted answer, and service.go:88-95        *)
(* answers NotFound for ErrSessionNotFound and Internal for any other      *)
(* error.                                                                  *)
SubmitAnswer_UpdateStatus(c) ==
    /\ calls[c].pc = "sa_update"
    /\ LET r == UpdateSessionStatus(sessions, calls[c].session, SessionStatusInProgress)
       IN /\ sessions' = r.rows
          /\ calls' = [calls EXCEPT ![c] =
                IF r.err = "ErrSessionNotFound" THEN Done(c, NotFound, "session not found")
                ELSE IF r.err # "" THEN Done(c, Internal, "failed to submit answer")
                ELSE Goto(c, "sa_txCommit")]
    /\ UNCHANGED <<exams, examTimes, questions, answers, scores, lastCommit, tin, tout, now, issued>>

(* repository.go:200: COMMIT publishes the answer row.                     *)
SubmitAnswer_TxCommit(c) ==
    /\ calls[c].pc = "sa_txCommit"
    /\ answers' = Upsert(answers, calls[c].session, calls[c].question, calls[c].choice)
    /\ lastCommit' = [k \in DOMAIN lastCommit \cup {<<calls[c].session, calls[c].question>>} |->
                         IF k = <<calls[c].session, calls[c].question>> THEN calls[c].choice ELSE lastCommit[k]]
    /\ calls' = [calls EXCEPT ![c] = Done(c, OK, "Answer submitted successfully")]
    /\ UNCHANGED <<exams, examTimes, questions, sessions, scores, tin, tout, now, issued>>

(* repository.go:174-200: the statements that follow the status check, in  *)
(* the order of the code: the upsert, the status update when the status    *)
(* read was STARTED, the COMMIT.  The call takes the step its position     *)
(* names.  After a status read of STARTED the COMMIT is reached only if    *)
(* the status update succeeds, which UpdateSessionStatus never does.       *)
SubmitAnswer_Tx(c) ==
    IF calls[c].pc = "sa_txUpsert" THEN SubmitAnswer_TxUpsert(c)
    ELSE IF calls[c].pc = "sa_update" THEN SubmitAnswer_UpdateStatus(c)
    ELSE SubmitAnswer_TxCommit(c)

(* repository.go:155, 178-190, 194-197, 200: a statement of the open       *)
(* transaction, the status update or the COMMIT fails in the store (lost   *)
(* connection, cancelled context): the repository returns the error, the   *)
(* deferred tx.Rollback() discards the upserted answer, and service.go:94  *)
(* answers Internal.                                                       *)
SubmitAnswer_StoreFailure(c) ==
    /\ calls[c].pc \in {"sa_txUpsert", "sa_update", "sa_txCommit"}
    /\ calls' = [calls EXCEPT ![c] = Done(c, Internal, "failed to submit answer")]
    /\ UNCHANGED <<exams, examTimes, questions, sessions, answers, scores, lastCommit, tin, tout, now, issued>>

---------------------------------------------------------------------------
(* sessionService.FinishSession (service.go:104-126).                      *)

(* repository.go:81-116: GetSession scans end_time into a time.Time.  The  *)
(* column is NULL in every row that has not been given an end time (the    *)
(* INSERT of StartSession does not set it), and database/sql refuses to    *)
(* store NULL in a time.Time: the scan fails for such a row.  That error,  *)
(* and the error of the query for an id that is no UUID, are wrapped as    *)
(* "failed to get session" (104-106); no row is ErrSessionNotFound         *)
(* (101-103).                                                              *)
GetSession(sid) ==
    IF sid = MalformedSession THEN "failed to get session"
    ELSE IF ~SessionVisible(sid) THEN "ErrSessionNotFound"
    ELSE IF ~sessions[sid].ended THEN "failed to get session"
    ELSE "ok"

(* service.go:105-115: GetSession, then the check on the status read.      *)
FinishSession_GetSession(c, sid) ==
    /\ calls[c].pc = "idle"
    /\ LET call == [IdleCall EXCEPT !.op = "FinishSession", !.session = sid]
       IN calls' = [calls EXCEPT ![c] =
             IF GetSession(sid) = "ErrSessionNotFound"
             THEN [call EXCEPT !.pc = "done", !.code = NotFound, !.msg = "session not found"]
             ELSE IF GetSession(sid) # "ok"
             THEN [call EXCEPT !.pc = "done", !.code = Internal, !.msg = "failed to get session"]
             ELSE IF sessions[sid].status = SessionStatusFinished
             THEN [call EXCEPT !.pc = "done", !.code = FailedPrecondition, !.msg = "session is already finished"]
             ELSE [call EXCEPT !.pc = "fs_finish", !.seen = sessions[sid].status]]
    /\ UNCHANGED <<exams, examTimes, questions, sessions, answers, scores, lastCommit, tin, tout, now, issued>>

(* service.go:117-125 over repository.go:145-147: every error of          *)
(* UpdateSessionStatus is answered Internal.                               *)
FinishSession_Finish(c) ==
    /\ calls[c].pc = "fs_finish"
    /\ LET r == UpdateSessionStatus(sessions, calls[c].session, SessionStatusFinished)
       IN /\ sessions' = r.rows
          /\ calls' = [calls EXCEPT ![c] =
                IF r.err # "" THEN Done(c, Internal, "failed to finish session")
                ELSE [Done(c, OK, "") EXCEPT !.resp = convertStatusToProto(SessionStatusFinished)]]
    /\ UNCHANGED <<exams, examTimes, questions, answers, scores, lastCommit, tin, tout, now, issued>>

(* The external timeout sweep of spec section 4.1: a live session is moved *)
(* to Timeout.  The sweep is no part of the repository's code and writes   *)
(* the row by its own means; the specification says that it makes the      *)
(* transition and nothing about the end time, a column that may be NULL    *)
(* (part_005:9).  stamped tells whether the sweep also writes the end      *)
(* time: both sweeps are admitted.                                         *)
TimeoutSweep(sid, stamped) ==
    /\ SessionVisible(sid)
    /\ sessions[sid].status \in Live
    /\ sessions' = [sessions EXCEPT ![sid] = IF stamped THEN StatusWritten(@, SessionStatusTimeout)
                                                       ELSE [@ EXCEPT !.status = SessionStatusTimeout]]
    /\ UNCHANGED <<exams, examTimes, questions, answers, scores, calls, lastCommit, tin, tout, now, issued>>

(* The response has been delivered: the slot is free for a new request.    *)
Return(c) ==
    /\ calls[c].pc = "done"
    /\ calls' = [calls EXCEPT ![c] = IdleCall]
    /\ UNCHANGED <<exams, examTimes, questions, sessions, answers, scores, lastCommit, tin, tout, now, issued>>

---------------------------------------------------------------------------
(* Session domain: ExamSession.CalculateRemainingTime (session.go:40-65).  *)
(* A time.Duration d, an int64 count of nanoseconds, is kept as whole      *)
(* seconds s and nanoseconds n with d = s * 10^9 + n and 0 <= n < 10^9, so *)
(* that d < 0 is s < 0.  The model covers durations below 2^31 seconds,    *)
(* where neither the int64 of a Duration nor the int32 of the result       *)
(* overflows.                                                              *)

Nanos == 1000000000

examDurationMinutes == 120

RECURSIVE FloorLog2(_)
FloorLog2(x) == IF x < 2 THEN 0 ELSE 1 + FloorLog2(x \div 2)

(* session.go:48: s.StartTime.Add(time.Duration(durationMinutes) *         *)
(* time.Minute)                                                            *)
AddMinutes(t, m) == [s |-> t.s + 60 * m, n |-> t.n]

(* session.go:49: time.Until(endTime), endTime minus the clock.            *)
Until(t) ==
    IF t.n >= now.n THEN [s |-> t.s - now.s, n |-> t.n - now.n]
    ELSE [s |-> t.s - now.s - 1, n |-> t.n + Nanos - now.n]

(* Duration.Minutes is float64(d / Minute) + float64(d % Minute) / 6e10.   *)
(* The sum is rounded to a float64, whose spacing at min >= 2^18 exceeds   *)
(* the 1/6e10 a nanosecond weighs: the sum reaches min + 1 when d is short *)
(* of the next minute by no more than MinuteSlack nanoseconds, that is by  *)
(* half the spacing, 6e10 / 2^(53 - e) with 2^e <= min < 2^(e+1).          *)
MinuteSlack(min) == IF min < 262144 THEN 0 ELSE 29296875 \div Pow2(42 - FloorLog2(min))

(* Duration.Seconds is float64(d / Second) + float64(d % Second) / 1e9,    *)
(* which reaches sec + 1 in the same way from sec >= 2^24 on.              *)
SecondSlack(sec) == IF sec < 16777216 THEN 0 ELSE 1953125 \div Pow2(44 - FloorLog2(sec))

(* session.go:58: int32(remaining.Minutes()) for remaining >= 0.           *)
Int32Minutes(d) ==
    IF d.s % 60 = 59 /\ Nanos - d.n <= MinuteSlack(d.s \div 60) THEN d.s \div 60 + 1 ELSE d.s \div 60

(* session.go:59: int32(remaining.Seconds()) for remaining >= 0.           *)
Int32Seconds(d) == IF Nanos - d.n <= SecondSlack(d.s) THEN d.s + 1 ELSE d.s

(* session.go:40-65 *)
CalculateRemainingTime(s, durationMinutes) ==
    IF s.status = SessionStatusFinished \/ s.status = SessionStatusTimeout THEN NoTime
    ELSE LET remaining == Until(AddMinutes(s.start, durationMinutes))
         IN IF remaining.s < 0 THEN NoTime
            ELSE [minutes |-> Int32Minutes(remaining), seconds |-> Int32Seconds(remaining) % 60]

---------------------------------------------------------------------------
(* sessionService.GetRemainingTime (service.go:128-147).                   *)

(* service.go:129-135: GetSession.  Its second statement, the SELECT of    *)
(* the session's answers, has no part in the response.                     *)
GetRemainingTime_GetSession(c, sid) ==
    /\ calls[c].pc = "idle"
    /\ LET call == [IdleCall EXCEPT !.op = "GetRemainingTime", !.session = sid]
       IN calls' = [calls EXCEPT ![c] =
             IF GetSession(sid) = "ErrSessionNotFound"
             THEN [call EXCEPT !.pc = "done", !.code = NotFound, !.msg = "session not found"]
             ELSE IF GetSession(sid) # "ok"
             THEN [call EXCEPT !.pc = "done", !.code = Internal, !.msg = "failed to get session"]
             ELSE [call EXCEPT !.pc = "rt_calculate", !.seen = sessions[sid].status, !.start = sessions[sid].start]]
    /\ UNCHANGED <<exams, examTimes, questions, sessions, answers, scores, lastCommit, tin, tout, now, issued>>

(* service.go:137-146: the remaining time of the session read, for the     *)
(* constant examDurationMinutes, at the clock of this step.                *)
GetRemainingTime_Calculate(c) ==
    /\ calls[c].pc = "rt_calculate"
    /\ calls' = [calls EXCEPT ![c] =
          [Done(c, OK, "") EXCEPT !.rt = CalculateRemainingTime([status |-> calls[c].seen, start |-> calls[c].start], examDurationMinutes)]]
    /\ UNCHANGED <<exams, examTimes, questions, sessions, answers, scores, lastCommit, tin, tout, now, issued>>

(* Time passes: the clock reaches the later instant t.                     *)
Tick(t) ==
    /\ t.s > now.s
    /\ now' = t
    /\ UNCHANGED <<exams, examTimes, questions, sessions, answers, scores, calls, lastCommit, tin, tout, issued>>

---------------------------------------------------------------------------
(* examService.ActivateExam and DeactivateExam (exam.go:170-214) over the  *)
(* exam repository.                                                        *)

(* exam repository.go:66-103: GetByID scans start_time and end_time into   *)
(* time.Time fields and array_agg(ec.class_id) into a []string.  A NULL    *)
(* timestamp, or the single NULL element array_agg yields for an exam      *)
(* without exam_classes rows, makes the scan fail.                         *)
GetByID(e) ==
    IF exams[e] = NoExam THEN "ErrExamNotFound"
    ELSE IF ~(examTimes[e].start /\ examTimes[e].end /\ examTimes[e].classes) THEN "failed to get exam"
    ELSE "ok"

(* The types PostgreSQL deduces for parameter $1 of the UPDATE of exam     *)
(* repository.go:223-234: text where the CASE compares $1 with the untyped *)
(* literals 'ACTIVE' and 'FINISHED', exam_state where $1 is assigned to    *)
(* the column status.                                                      *)
StateParamTypes == {"text", "exam_state"}

(* The UPDATE with its parameter cast to exam_state: the statement is      *)
(* prepared and runs.                                                      *)
UpdateStatusCast(e, state) ==
    IF exams[e] = NoExam THEN [err |-> "ErrExamNotFound", exams |-> exams, times |-> examTimes]
    ELSE [err |-> "",
          exams |-> [exams EXCEPT ![e] = state],
          times |-> [examTimes EXCEPT ![e] = [@ EXCEPT !.start = IF state = ExamStateActive THEN TRUE ELSE @,
                                                       !.end = IF state = ExamStateFinished THEN TRUE ELSE @]]]

(* exam repository.go:222-251: UPDATE exams SET status = $1, start_time =  *)
(* now when $1 = 'ACTIVE', end_time = now when $1 = 'FINISHED', WHERE id = *)
(* $2.  The types deduced for $1 differ, so the server refuses the         *)
(* statement when it is parsed (SQLSTATE 42P08): ExecContext returns the   *)
(* error on every call (repository.go:238-240) and no row is written.  No  *)
(* row affected is ErrExamNotFound.                                        *)
UpdateStatus(e, state) ==
    IF Cardinality(StateParamTypes) # 1 THEN [err |-> "failed to update exam status", exams |-> exams, times |-> examTimes]
    ELSE IF exams[e] = NoExam THEN [err |-> "ErrExamNotFound", exams |-> exams, times |-> examTimes]
    ELSE [err |-> "",
          exams |-> [exams EXCEPT ![e] = state],
          times |-> [examTimes EXCEPT ![e] = [@ EXCEPT !.start = IF state = ExamStateActive THEN TRUE ELSE @,
                                                       !.end = IF state = ExamStateFinished THEN TRUE ELSE @]]]

(* exam.go:171-181 (ActivateExam) and 194-204 (DeactivateExam): the       *)
(* outcome of GetByID and of the check of the state read; from is the      *)
(* state the operation requires.                                           *)
ExamChecked(op, e, from, msg) ==
    LET call == [IdleCall EXCEPT !.op = op, !.exam = e]
        r == GetByID(e)
    IN IF r = "ErrExamNotFound" THEN [call EXCEPT !.pc = "done", !.code = NotFound, !.msg = "exam not found"]
       ELSE IF r # "ok" THEN [call EXCEPT !.pc = "done", !.code = Internal, !.msg = "failed to get exam"]
       ELSE IF exams[e] # from THEN [call EXCEPT !.pc = "done", !.code = FailedPrecondition, !.msg = msg]
       ELSE [call EXCEPT !.pc = "ex_update"]

(* exam.go:171-181 *)
ActivateExam_GetByID(c, e) ==
    /\ calls[c].pc = "idle"
    /\ calls' = [calls EXCEPT ![c] = ExamChecked("ActivateExam", e, ExamStateCreated, "exam can only be activated when in CREATED state")]
    /\ UNCHANGED <<exams, examTimes, questions, sessions, answers, scores, lastCommit, tin, tout, now, issued>>

(* exam.go:183-190: UpdateStatus, its own statement; every error of it is  *)
(* answered Internal.                                                      *)
ActivateExam_UpdateStatus(c) ==
    /\ calls[c].pc = "ex_update"
    /\ calls[c].op = "ActivateExam"
    /\ LET r == UpdateStatus(calls[c].exam, ExamStateActive)
       IN /\ exams' = r.exams
          /\ examTimes' = r.times
          /\ calls' = [calls EXCEPT ![c] = IF r.err # "" THEN Done(c, Internal, "failed to activate exam") ELSE Done(c, OK, "")]
    /\ UNCHANGED <<questions, sessions, answers, scores, lastCommit, tin, tout, now, issued>>

(* exam.go:194-204 *)
DeactivateExam_GetByID(c, e) ==
    /\ calls[c].pc = "idle"
    /\ calls' = [calls EXCEPT ![c] = ExamChecked("DeactivateExam", e, ExamStateActive, "exam can only be deactivated when in ACTIVE state")]
    /\ UNCHANGED <<exams, examTimes, questions, sessions, answers, scores, lastCommit, tin, tout, now, issued>>

(* exam.go:206-213 *)
DeactivateExam_UpdateStatus(c) ==
    /\ calls[c].pc = "ex_update"
    /\ calls[c].op = "DeactivateExam"
    /\ LET r == UpdateStatus(calls[c].exam, ExamStateFinished)
       IN /\ exams' = r.exams
          /\ examTimes' = r.times
          /\ calls' = [calls EXCEPT ![c] = IF r.err # "" THEN Done(c, Internal, "failed to deactivate exam") ELSE Done(c, OK, "")]
    /\ UNCHANGED <<questions, sessions, answers, scores, lastCommit, tin, tout, now, issued>>

---------------------------------------------------------------------------
(* examService.CreateExam (exam.go:83-100) over Create (exam              *)
(* repository.go:23-64), one action per store round trip.                  *)

(* What a request names as its classes: no class id, class ids, or a list  *)
(* the store refuses (an element that is no UUID, or an id given twice).   *)
ClassLists == {"none", "some", "bad"}

(* repository.go:24-50: BeginTx and INSERT INTO exams (title, ...,         *)
(* teacher_id, status) ... RETURNING id.  The status is ExamStateCreated   *)
(* (exam.go:92); start_time and end_time are not named and stay NULL; the  *)
(* id is a fresh one.  teacher_id is a UUID column: a request whose        *)
(* teacher id is no UUID is refused, and exam.go:95-97 answers Internal.   *)
CreateExam_Insert(c, teacherIsUuid, classIds) ==
    /\ calls[c].pc = "idle"
    /\ LET call == [IdleCall EXCEPT !.op = "CreateExam", !.classes = classIds]
       IN IF ~teacherIsUuid
          THEN /\ calls' = [calls EXCEPT ![c] = [call EXCEPT !.pc = "done", !.code = Internal, !.msg = "failed to create exam"]]
               /\ UNCHANGED issued
          ELSE \E e \in Exams \ issued :
                  /\ issued' = issued \cup {e}
                  /\ calls' = [calls EXCEPT ![c] = [call EXCEPT !.exam = e, !.pc = IF classIds = "none" THEN "ce_commit" ELSE "ce_classes"]]
    /\ UNCHANGED <<exams, examTimes, questions, sessions, answers, scores, lastCommit, tin, tout, now>>

(* repository.go:52-61: INSERT INTO exam_classes ... unnest($2::uuid[]),   *)
(* sent when the request names classes.  On an error the deferred          *)
(* tx.Rollback() discards the exam.                                        *)
CreateExam_Classes(c) ==
    /\ calls[c].pc = "ce_classes"
    /\ calls' = [calls EXCEPT ![c] =
          IF calls[c].classes = "bad" THEN Done(c, Internal, "failed to create exam") ELSE Goto(c, "ce_commit")]
    /\ UNCHANGED <<exams, examTimes, questions, sessions, answers, scores, lastCommit, tin, tout, now, issued>>

(* repository.go:63: COMMIT publishes the exam, in state CREATED, without  *)
(* start and end time, with the exam_classes rows the request named.       *)
CreateExam_Commit(c) ==
    /\ calls[c].pc = "ce_commit"
    /\ exams' = [exams EXCEPT ![calls[c].exam] = ExamStateCreated]
    /\ examTimes' = [examTimes EXCEPT ![calls[c].exam] = [start |-> FALSE, end |-> FALSE, classes |-> calls[c].classes = "some"]]
    /\ calls' = [calls EXCEPT ![c] = Done(c, OK, "")]
    /\ UNCHANGED <<questions, sessions, answers, scores, lastCommit, tin, tout, now, issued>>

---------------------------------------------------------------------------
(* examService.DeleteExam (exam.go:159-168) over Delete (exam              *)
(* repository.go:204-220).                                                 *)

(* An open UpdateQuestion transaction has updated the questions row q and  *)
(* holds its row lock until COMMIT.                                        *)
QuestionRowLocked(q, c) ==
    \E d \in DOMAIN calls : /\ d # c
                            /\ calls[d].op = "UpdateQuestion"
                            /\ calls[d].pc \in {"uq_deleteChoices", "uq_choices", "uq_commit"}
                            /\ calls[d].question = q

(* An open transaction holds a row the DELETE must remove, or a lock on    *)
(* one: the uncommitted session of a StartSession on the exam, the         *)
(* uncommitted answer of a SubmitAnswer to a session or a question of the  *)
(* exam, the uncommitted question of a CreateQuestion for the exam, or the *)
(* row lock of an UpdateQuestion on one of its questions.  The DELETE      *)
(* waits for it.                                                           *)
ExamRowLocked(e) ==
    \E d \in DOMAIN calls :
        \/ calls[d].op = "StartSession" /\ calls[d].pc = "ss_txCommit" /\ calls[d].exam = e
        \/ /\ calls[d].op = "SubmitAnswer" /\ calls[d].pc \in {"sa_update", "sa_txCommit"}
           /\ \/ sessions[calls[d].session].exam = e
              \/ \E q \in questions : q.id = calls[d].question /\ q.exam = e
        \/ calls[d].op = "CreateQuestion" /\ calls[d].pc \in {"cq_choices", "cq_commit"} /\ calls[d].exam = e
        \/ \E q \in questions : q.exam = e /\ QuestionRowLocked(q.id, 0)

(* The place of an exam_scores row that has been deleted: the id of a row  *)
(* is its position in scores, and the ids of the rows that stay do not     *)
(* change when a row goes.                                                 *)
DeletedScore == [exam |-> "", session |-> 0, student |-> "", total |-> 0, correct |-> 0, wrong |-> 0, unanswered |-> 0, score |-> 0]

(* The ids of the exam_scores rows the table holds.                        *)
ScoreIds == {i \in 1 .. Len(scores) : scores[i] # DeletedScore}

(* DELETE FROM exams WHERE id = $1.  The foreign keys of exam_sessions     *)
(* (part_005:5), questions (question repository.go:337) and exam_scores    *)
(* (scoring repository.go:235) are ON DELETE CASCADE, as are those of      *)
(* session_answers (part_005:17-18) and exam_scores (scoring               *)
(* repository.go:236) to the sessions and questions removed: the           *)
(* statement removes the exam with its questions and sessions and their    *)
(* answers and scores.  The rows that stay keep their ids.                 *)
DeleteExam_Delete(c, e) ==
    /\ calls[c].pc = "idle"
    /\ ~ExamRowLocked(e)
    /\ LET call == [IdleCall EXCEPT !.op = "DeleteExam", !.exam = e]
           gone == {i \in SessionIds : sessions[i].exam = e /\ Committed(i)}
           kept == {a \in answers : a.session \notin gone /\ ~(\E q \in questions : q.id = a.question /\ q.exam = e)}
       IN IF exams[e] = NoExam
          THEN /\ calls' = [calls EXCEPT ![c] = [call EXCEPT !.pc = "done", !.code = NotFound, !.msg = "exam not found"]]
               /\ UNCHANGED <<exams, questions, sessions, answers, scores, lastCommit>>
          ELSE /\ exams' = [exams EXCEPT ![e] = NoExam]
               /\ questions' = {q \in questions : q.exam # e}
               /\ sessions' = [i \in SessionIds |-> IF i \in gone THEN [sessions[i] EXCEPT !.tx = Deleted] ELSE sessions[i]]
               /\ answers' = kept
               /\ lastCommit' = [k \in {<<a.session, a.question>> : a \in kept} |-> lastCommit[k]]
               /\ scores' = [i \in 1 .. Len(scores) |->
                                IF scores[i].exam = e \/ scores[i].session \in gone THEN DeletedScore ELSE scores[i]]
               /\ calls' = [calls EXCEPT ![c] = [call EXCEPT !.pc = "done", !.code = OK]]
    /\ UNCHANGED <<examTimes, tin, tout, now, issued>>

---------------------------------------------------------------------------
(* Scoring domain: ExamScore.CalculateScore and the float32 it computes.   *)
(* A float32 is kept as a 24-bit significand sm and an exponent se, value  *)
(* sm * 2^se with 2^23 <= sm < 2^24, or sm = 0 for zero; every operation   *)
(* rounds to nearest, ties to even, as IEEE-754 single precision does.     *)

F32Half == 8388608

F32Full == 16777216

(* Round the quotient num / den (num, den > 0) to an integer, ties to even. *)
RoundEven(num, den) ==
    LET q == num \div den
        r == num % den
    IN IF 2 * r > den \/ (2 * r = den /\ q % 2 = 1) THEN q + 1 ELSE q

F32Norm(m, e) == IF m = F32Full THEN [sm |-> F32Half, se |-> e + 1] ELSE [sm |-> m, se |-> e]

RECURSIVE DivShift(_, _, _)
DivShift(a, b, k) == IF a * Pow2(k) >= b * F32Half THEN k ELSE DivShift(a, b, k + 1)

(* float32(a) / float32(b) for integers 0 <= a <= b, b > 0. *)
F32Div(a, b) ==
    IF a = 0 THEN [sm |-> 0, se |-> 0]
    ELSE LET k == DivShift(a, b, 0)
         IN F32Norm(RoundEven(a * Pow2(k), b), 0 - k)

(* x * 100 in float32. *)
F32Mul100(x) ==
    IF x.sm = 0 THEN [sm |-> 0, se |-> 0]
    ELSE LET p == x.sm * 100
             sh == IF p < 64 * F32Full THEN 6 ELSE 7
         IN F32Norm(RoundEven(p, Pow2(sh)), x.se + sh)

(* CalculateScore with the unanswered questions left out of the            *)
(* subtraction that yields the wrong count.                                *)
CalculateScoreNoUnanswered(s) ==
    LET f == IF s.total > 0 THEN F32Mul100(F32Div(s.correct, s.total)) ELSE [sm |-> s.sm, se |-> s.se]
    IN [s EXCEPT !.sm = f.sm, !.se = f.se, !.wrong = s.total - s.correct]

(* CalculateScore with the percentage taken of the questions that were not *)
(* answered correctly.                                                     *)
CalculateScoreSwapped(s) ==
    LET f == IF s.total > 0 THEN F32Mul100(F32Div(s.total - s.correct, s.total)) ELSE [sm |-> s.sm, se |-> s.se]
    IN [s EXCEPT !.sm = f.sm, !.se = f.se, !.wrong = s.total - s.correct - s.unanswered]

(* part_003:52-57 *)
CalculateScore(s) ==
    LET f == IF s.total > 0 THEN F32Mul100(F32Div(s.correct, s.total)) ELSE [sm |-> s.sm, se |-> s.se]
    IN [s EXCEPT !.sm = f.sm, !.se = f.se, !.wrong = s.total - s.correct - s.unanswered]

(* scoring service.go:43-50: the loop over the joined rows. *)
RECURSIVE CountAnswers(_, _)
CountAnswers(list, s) ==
    IF list = <<>> THEN s
    ELSE LET a == Head(list)
         IN CountAnswers(Tail(list),
               IF a.student = "" THEN [s EXCEPT !.unanswered = @ + 1]
               ELSE IF a.student = a.correct THEN [s EXCEPT !.correct = @ + 1]
               ELSE s)

(* scoring service.go:37-53: the score the service hands to CreateScore.   *)
(* ExamID and StudentID are never assigned and keep Go's zero value "".     *)
TallyScore(list) == CalculateScore(CountAnswers(list, [NoScore EXCEPT !.total = Len(list)]))

---------------------------------------------------------------------------
(* Scoring repository.                                                     *)

(* What the LEFT JOIN yields for a question without a session_answers row. *)
NULL == "NULL"

RECURSIVE SeqOf(_)
SeqOf(S) == IF S = {} THEN <<>> ELSE LET x == CHOOSE y \in S : TRUE IN <<x>> \o SeqOf(S \ {x})

(* repository.go:165-170: FROM exam_sessions es JOIN questions q ON         *)
(* q.exam_id = es.exam_id LEFT JOIN session_answers sa ON sa.question_id = *)
(* q.id AND sa.session_id = es.id WHERE es.id = $1.                        *)
JoinRows(sid) ==
    IF ~SessionVisible(sid) THEN {}
    ELSE UNION {LET m == {a \in answers : a.session = sid /\ a.question = q.id}
                IN IF m = {} THEN {[question |-> q.id, correct |-> q.correct, student |-> NULL]}
                   ELSE {[question |-> q.id, correct |-> q.correct, student |-> a.choice] : a \in m}
                : q \in {r \in questions : r.exam = sessions[sid].exam}}

(* repository.go:164-197: an error of the query, as the one for an id that *)
(* is no UUID, is wrapped as "failed to get answers" (172-175); rows.Scan  *)
(* reads selected_choice into a Go string and fails on NULL ("converting   *)
(* NULL to string is unsupported", 181-188); zero rows are                 *)
(* ErrSessionNotFound (192-194).                                           *)
GetCorrectAnswers(sid) ==
    LET rows == JoinRows(sid)
    IN IF sid = MalformedSession THEN [err |-> "failed to get answers", list |-> <<>>]
       ELSE IF \E r \in rows : r.student = NULL THEN [err |-> "failed to scan answer", list |-> <<>>]
       ELSE IF rows = {} THEN [err |-> "ErrSessionNotFound", list |-> <<>>]
       ELSE [err |-> "", list |-> SeqOf(rows)]

(* score DECIMAL(5,2): the float32 rounded to hundredths, half away from    *)
(* zero as PostgreSQL's numeric does.                                      *)
ToDecimal(sm, se) == IF sm = 0 THEN 0 ELSE (2 * sm * 50 + Pow2(0 - se) \div 2) \div Pow2(0 - se)

ScoreRow(sid, sc) == [exam |-> sc.exam, session |-> sid, student |-> sc.student, total |-> sc.total, correct |-> sc.correct,
                      wrong |-> sc.wrong, unanswered |-> sc.unanswered, score |-> ToDecimal(sc.sm, sc.se)]

(* CreateScore on a table without its column types and constraints. *)
CreateScoreUnchecked(rows, sid, sc) == [err |-> "", rows |-> Append(rows, ScoreRow(sid, sc))]

(* CreateScore on a table without column types, replacing the score row of *)
(* the session when there is one.                                          *)
CreateScoreOverwrite(rows, sid, sc) ==
    IF \E i \in 1 .. Len(rows) : rows[i].session = sid
    THEN [err |-> "", rows |-> [i \in 1 .. Len(rows) |-> IF rows[i].session = sid THEN ScoreRow(sid, sc) ELSE rows[i]]]
    ELSE [err |-> "", rows |-> Append(rows, ScoreRow(sid, sc))]

(* repository.go:24-53 against the table of repository.go:233-246: exam_id *)
(* and student_id are UUID columns, (exam_id, student_id) is unique,       *)
(* exam_id and session_id are foreign keys.  The values are converted to   *)
(* the column types first; the unique index is checked when the row is     *)
(* inserted, the foreign keys by the triggers that fire after it.  Only    *)
(* SQLSTATE 23505 becomes ErrDuplicateScore.                               *)
CreateScore(rows, sid, sc) ==
    IF sc.exam \notin Exams \/ sc.student \notin Students
    THEN [err |-> "failed to create score", rows |-> rows]
    ELSE IF \E i \in 1 .. Len(rows) : rows[i].exam = sc.exam /\ rows[i].student = sc.student
    THEN [err |-> "ErrDuplicateScore", rows |-> rows]
    ELSE IF exams[sc.exam] = NoExam \/ ~SessionVisible(sid)
    THEN [err |-> "failed to create score", rows |-> rows]
    ELSE [err |-> "", rows |-> Append(rows, ScoreRow(sid, sc))]

---------------------------------------------------------------------------
(* scoringService.CalculateScore (scoring service.go:27-64).               *)

ReachedCreate(c) == calls[c].op = "CalculateScore" /\ calls[c].pc \in {"cs_create", "done"} /\ calls[c].score.total > 0

(* service.go:29-53: GetCorrectAnswers, the tally and the percentage.      *)
CalculateScore_GetCorrectAnswers(c, sid) ==
    /\ calls[c].pc = "idle"
    /\ LET r == GetCorrectAnswers(sid)
           call == [IdleCall EXCEPT !.op = "CalculateScore", !.session = sid,
                                    !.later = \E d \in DOMAIN calls : d # c /\ calls[d].pc = "done" /\ ReachedCreate(d) /\ calls[d].session = sid]
       IN calls' = [calls EXCEPT ![c] =
             IF r.err = "ErrSessionNotFound" THEN [call EXCEPT !.pc = "done", !.code = NotFound, !.msg = "session not found"]
             ELSE IF r.err # "" THEN [call EXCEPT !.pc = "done", !.code = Internal, !.msg = "failed to get answers"]
             ELSE [call EXCEPT !.pc = "cs_create", !.score = TallyScore(r.list)]]
    /\ UNCHANGED <<exams, examTimes, questions, sessions, answers, scores, lastCommit, tin, tout, now, issued>>

(* service.go:55-63: CreateScore and the mapping of its error.             *)
CalculateScore_CreateScore(c) ==
    /\ calls[c].pc = "cs_create"
    /\ LET r == CreateScore(scores, calls[c].session, calls[c].score)
       IN /\ scores' = r.rows
          /\ calls' = [calls EXCEPT ![c] =
                IF r.err = "ErrDuplicateScore" THEN Done(c, AlreadyExists, "score already exists for this exam and student")
                ELSE IF r.err # "" THEN Done(c, Internal, "failed to save score")
                ELSE Done(c, OK, "")]
    /\ UNCHANGED <<exams, examTimes, questions, sessions, answers, lastCommit, tin, tout, now, issued>>

(* scoring service.go:27-66: the handler statement by statement: a request *)
(* for session sid arrives, or the call that holds its tally goes on to    *)
(* CreateScore.                                                            *)
CalculateScore_Handler(c, sid) ==
    IF calls[c].pc = "cs_create" THEN CalculateScore_CreateScore(c)
    ELSE CalculateScore_GetCorrectAnswers(c, sid)

---------------------------------------------------------------------------
(* scoringService.GetScore and ListScores (scoring service.go:66-99).      *)
(* The id of an exam_scores row is its position in scores.                 *)

(* scoring service.go:66-76 over repository.go:55-87. *)
GetScore_Query(c, id) ==
    /\ calls[c].pc = "idle"
    /\ LET call == [IdleCall EXCEPT !.op = "GetScore"]
       IN calls' = [calls EXCEPT ![c] =
             IF id \in ScoreIds
             THEN [call EXCEPT !.pc = "done", !.code = OK, !.rows = <<scores[id]>>]
             ELSE [call EXCEPT !.pc = "done", !.code = NotFound, !.msg = "score not found"]]
    /\ UNCHANGED <<exams, examTimes, questions, sessions, answers, scores, lastCommit, tin, tout, now, issued>>

(* repository.go:124-131: WHERE exam_id = $1 ORDER BY score DESC.          *)
RECURSIVE ByScoreDesc(_)
ByScoreDesc(ids) ==
    IF ids = {} THEN <<>>
    ELSE LET top == CHOOSE i \in ids : \A j \in ids : scores[j].score <= scores[i].score
         IN <<scores[top]>> \o ByScoreDesc(ids \ {top})

(* LIMIT $2 OFFSET $3 *)
Page(list, limit, offset) ==
    [i \in 1 .. (IF Len(list) - offset < limit THEN (IF Len(list) > offset THEN Len(list) - offset ELSE 0) ELSE limit) |-> list[offset + i]]

(* scoring service.go:78-99 over repository.go:123-162.  The offset is     *)
(* the length of the page token; a negative LIMIT is refused by the        *)
(* store; with as many rows as the page size the token is the id of the    *)
(* last row, which for a page size of 0 is an index of -1 into the empty   *)
(* page: the handler panics.                                               *)
ListScores_Query(c, e, pageSize, tokenLen) ==
    /\ calls[c].pc = "idle"
    /\ LET call == [IdleCall EXCEPT !.op = "ListScores", !.exam = e]
           page == Page(ByScoreDesc({i \in ScoreIds : scores[i].exam = e}), pageSize, tokenLen)
       IN calls' = [calls EXCEPT ![c] =
             IF pageSize < 0
             THEN [call EXCEPT !.pc = "done", !.code = Internal, !.msg = "failed to list scores"]
             ELSE IF Len(page) = pageSize /\ pageSize = 0
             THEN [call EXCEPT !.pc = "done", !.code = "panic", !.msg = "index out of range [-1]"]
             ELSE [call EXCEPT !.pc = "done", !.code = OK, !.rows = page,
                               !.resp = IF Len(page) = pageSize THEN "next_page_token" ELSE ""]]
    /\ UNCHANGED <<exams, examTimes, questions, sessions, answers, scores, lastCommit, tin, tout, now, issued>>

---------------------------------------------------------------------------
(* questionService (question service.go) over the question repository.     *)
(* The service holds the repository only: it reads no exam state.          *)

(* The sequences that hold every element of S once.                        *)
Orderings(S) == {f \in [1 .. Cardinality(S) -> S] : \A i, j \in 1 .. Cardinality(S) : f[i] = f[j] => i = j}

(* created_at DEFAULT CURRENT_TIMESTAMP (repository.go:340) is the instant *)
(* at which the inserting transaction began.  A questions row keeps it as  *)
(* created, a count that grows with time: a transaction that begins now    *)
(* is later than every row stored and every transaction begun.             *)
CreatedAtNow ==
    LET stamps == {q.created : q \in questions} \cup {calls[d].created : d \in DOMAIN calls}
    IN 1 + (CHOOSE m \in stamps \cup {0} : \A n \in stamps \cup {0} : n <= m)

(* ORDER BY q.created_at: the ids of rows, oldest first.                   *)
RECURSIVE ByCreatedAt(_)
ByCreatedAt(rows) ==
    IF rows = {} THEN <<>>
    ELSE LET first == CHOOSE r \in rows : \A o \in rows : r.created <= o.created
         IN <<first.id>> \o ByCreatedAt(rows \ {first})

(* question service.go:26-45, repository.go:23-27: the request arrives and *)
(* BeginTx starts the transaction whose start time every created_at of the *)
(* transaction takes.  choiceCount is the number of choices of the         *)
(* request.  The model has an id in store for every transaction it begins. *)
CreateQuestion_Begin(c, e, key, choiceCount) ==
    /\ calls[c].pc = "idle"
    /\ Cardinality(QuestionIds \ issued) > Cardinality({d \in DOMAIN calls : calls[d].op = "CreateQuestion" /\ calls[d].pc = "cq_insert"})
    /\ calls' = [calls EXCEPT ![c] = [IdleCall EXCEPT !.op = "CreateQuestion", !.pc = "cq_insert", !.exam = e, !.choice = key,
                                                       !.choices = choiceCount, !.created = CreatedAtNow]]
    /\ UNCHANGED <<exams, examTimes, questions, sessions, answers, scores, lastCommit, tin, tout, now, issued>>

(* repository.go:29-44: INSERT INTO questions (exam_id, question_text,     *)
(* correct_answer) ... RETURNING id.  The foreign key exam_id REFERENCES   *)
(* exams(id) is the only thing the statement asks of the exam; the id is a *)
(* fresh one.  The row stays invisible to other connections until COMMIT.  *)
CreateQuestion_Insert(c) ==
    /\ calls[c].pc = "cq_insert"
    /\ IF exams[calls[c].exam] = NoExam
       THEN /\ calls' = [calls EXCEPT ![c] = Done(c, Internal, "failed to create question")]
            /\ UNCHANGED issued
       ELSE \E id \in QuestionIds \ issued :
               /\ issued' = issued \cup {id}
               /\ calls' = [calls EXCEPT ![c] = [Goto(c, IF calls[c].choices > 0 THEN "cq_choices" ELSE "cq_commit") EXCEPT !.question = id]]
    /\ UNCHANGED <<exams, examTimes, questions, sessions, answers, scores, lastCommit, tin, tout, now>>

(* repository.go:47-63: one INSERT INTO choices for each choice.           *)
CreateQuestion_Choice(c) ==
    /\ calls[c].pc = "cq_choices"
    /\ calls' = [calls EXCEPT ![c] = [Goto(c, IF calls[c].choices > 1 THEN "cq_choices" ELSE "cq_commit") EXCEPT !.choices = @ - 1]]
    /\ UNCHANGED <<exams, examTimes, questions, sessions, answers, scores, lastCommit, tin, tout, now, issued>>

(* repository.go:66: COMMIT publishes the question.                        *)
CreateQuestion_Commit(c) ==
    /\ calls[c].pc = "cq_commit"
    /\ questions' = questions \cup {[id |-> calls[c].question, exam |-> calls[c].exam, correct |-> calls[c].choice, created |-> calls[c].created]}
    /\ calls' = [calls EXCEPT ![c] = Done(c, OK, "")]
    /\ UNCHANGED <<exams, examTimes, sessions, answers, scores, lastCommit, tin, tout, now, issued>>

(* question service.go:82-106, repository.go:176-203: BeginTx and UPDATE   *)
(* questions SET question_text = $1, correct_answer = $2 WHERE id = $3.    *)
(* The statement waits for the row lock of another UpdateQuestion; no row  *)
(* is ErrQuestionNotFound, answered NotFound.                              *)
UpdateQuestion_Update(c, q, key, choiceCount) ==
    /\ calls[c].pc = "idle"
    /\ ~QuestionRowLocked(q, c)
    /\ LET call == [IdleCall EXCEPT !.op = "UpdateQuestion", !.question = q, !.choice = key, !.choices = choiceCount]
       IN calls' = [calls EXCEPT ![c] =
             IF \E r \in questions : r.id = q THEN [call EXCEPT !.pc = "uq_deleteChoices"]
             ELSE [call EXCEPT !.pc = "done", !.code = NotFound, !.msg = "question not found"]]
    /\ UNCHANGED <<exams, examTimes, questions, sessions, answers, scores, lastCommit, tin, tout, now, issued>>

(* repository.go:206-209: DELETE FROM choices WHERE question_id = $1.      *)
UpdateQuestion_DeleteChoices(c) ==
    /\ calls[c].pc = "uq_deleteChoices"
    /\ calls' = [calls EXCEPT ![c] = Goto(c, IF calls[c].choices > 0 THEN "uq_choices" ELSE "uq_commit")]
    /\ UNCHANGED <<exams, examTimes, questions, sessions, answers, scores, lastCommit, tin, tout, now, issued>>

(* repository.go:212-229: one INSERT INTO choices for each choice.         *)
UpdateQuestion_Choice(c) ==
    /\ calls[c].pc = "uq_choices"
    /\ calls' = [calls EXCEPT ![c] = [Goto(c, IF calls[c].choices > 1 THEN "uq_choices" ELSE "uq_commit") EXCEPT !.choices = @ - 1]]
    /\ UNCHANGED <<exams, examTimes, questions, sessions, answers, scores, lastCommit, tin, tout, now, issued>>

(* repository.go:231: COMMIT publishes the new correct_answer.             *)
UpdateQuestion_Commit(c) ==
    /\ calls[c].pc = "uq_commit"
    /\ questions' = {IF r.id = calls[c].question THEN [r EXCEPT !.correct = calls[c].choice] ELSE r : r \in questions}
    /\ calls' = [calls EXCEPT ![c] = Done(c, OK, "")]
    /\ UNCHANGED <<exams, examTimes, sessions, answers, scores, lastCommit, tin, tout, now, issued>>

(* question service.go:108-117 over repository.go:234-250: DELETE FROM     *)
(* questions WHERE id = $1, one statement.  It waits for the row lock of   *)
(* an UpdateQuestion and for a SubmitAnswer whose uncommitted answer       *)
(* refers to the question.  session_answers.question_id is ON DELETE       *)
(* CASCADE (part_005:18): the answers to the question go with it.          *)
DeleteQuestion_Delete(c, q) ==
    /\ calls[c].pc = "idle"
    /\ ~QuestionRowLocked(q, c)
    /\ ~(\E d \in DOMAIN calls : calls[d].op = "SubmitAnswer" /\ calls[d].pc \in {"sa_update", "sa_txCommit"} /\ calls[d].question = q)
    /\ LET call == [IdleCall EXCEPT !.op = "DeleteQuestion", !.question = q]
           kept == {a \in answers : a.question # q}
       IN IF \E r \in questions : r.id = q
          THEN /\ questions' = {r \in questions : r.id # q}
               /\ answers' = kept
               /\ lastCommit' = [k \in {<<a.session, a.question>> : a \in kept} |-> lastCommit[k]]
               /\ calls' = [calls EXCEPT ![c] = [call EXCEPT !.pc = "done", !.code = OK]]
          ELSE /\ calls' = [calls EXCEPT ![c] = [call EXCEPT !.pc = "done", !.code = NotFound, !.msg = "question not found"]]
               /\ UNCHANGED <<questions, answers, lastCommit>>
    /\ UNCHANGED <<exams, examTimes, sessions, scores, tin, tout, now, issued>>

(* question service.go:119-139 over repository.go:252-320: SELECT ... FROM *)
(* questions WHERE exam_id = $1 ORDER BY RANDOM() or created_at LIMIT $2.  *)
(* The store refuses a negative LIMIT; rows holds the ids returned.  The   *)
(* statements that follow read the choices of the questions returned.      *)
GetExamQuestions_Query(c, e, randomize, limit) ==
    /\ calls[c].pc = "idle"
    /\ LET call == [IdleCall EXCEPT !.op = "GetExamQuestions", !.exam = e]
           found == {r \in questions : r.exam = e}
       IN \E list \in (IF randomize THEN Orderings({r.id : r \in found}) ELSE {ByCreatedAt(found)}) :
             calls' = [calls EXCEPT ![c] =
                IF limit < 0
                THEN [call EXCEPT !.pc = "done", !.code = Internal, !.msg = "failed to get exam questions"]
                ELSE [call EXCEPT !.pc = "done", !.code = OK, !.rows = Page(list, limit, 0)]]
    /\ UNCHANGED <<exams, examTimes, questions, sessions, answers, scores, lastCommit, tin, tout, now, issued>>

---------------------------------------------------------------------------
(* The question bank the exams were created with.                          *)

(* The nullable columns of an exams row in a state, as the statements of   *)
(* Create and UpdateStatus name them: Create (repository.go:23-64) sets    *)
(* neither start_time nor end_time, the UPDATE of UpdateStatus names       *)
(* start_time for ACTIVE and end_time for FINISHED.  classes tells whether *)
(* exam_classes holds a row of the exam.                                   *)
TimesOf(state) == [start |-> state \in {ExamStateActive, ExamStateFinished}, end |-> state = ExamStateFinished, classes |-> TRUE]

QuestionRows == {[id |-> "q1", exam |-> "e1", correct |-> "A", created |-> 1], [id |-> "q2", exam |-> "e1", correct |-> "B", created |-> 2]}

NoTally == <<>>

InitStore ==
    /\ questions = QuestionRows
    /\ answers = {}
    /\ scores = <<>>
    /\ lastCommit = [k \in {} |-> ""]
    /\ tin = NoTally
    /\ tout = [done |-> FALSE, score |-> NoScore]
    /\ now = Epoch
    /\ issued = Given(exams, questions)

(* Admission: StartCalls requests, each served once, on an empty           *)
(* exam_sessions table.                                                    *)
InitStart ==
    /\ exams \in [Exams -> {ExamStateCreated, ExamStateActive}]
    /\ exams["e1"] = ExamStateActive
    /\ examTimes = [e \in Exams |-> TimesOf(exams[e])]
    /\ sessions = <<>>
    /\ calls = [c \in 1 .. StartCalls |-> IdleCall]
    /\ InitStore

NextStart ==
    \E c \in 1 .. StartCalls :
        \/ \E e \in Exams, st \in Students : StartSession_IsExamActive(c, e, st)
        \/ StartSession_HasActiveSession(c)
        \/ StartSession_TxExam(c)
        \/ StartSession_TxCount(c)
        \/ StartSession_TxInsert(c)
        \/ StartSession_TxCommit(c)

SpecStart == InitStart /\ [][NextStart]_vars

(* A committed exam_sessions row as StartSession leaves it.                 *)
AdmittedSession == [exam |-> "e1", student |-> "s1", status |-> SessionStatusStarted, start |-> Epoch, ended |-> FALSE, endTime |-> Epoch, tx |-> 0]

FullRow == [start |-> TRUE, end |-> TRUE, classes |-> TRUE]

(* The status and end time of the exam_sessions rows that the program and  *)
(* the sweep leave.  The INSERT of StartSession leaves a row Started       *)
(* without end time (repository.go:60-76); no statement of the program     *)
(* changes the status or the end time of a row, since UpdateSessionStatus  *)
(* is refused on every call; the timeout sweep moves a row to Timeout,     *)
(* with an end time or without.  Such a store holds no answer and no       *)
(* score: the first SubmitAnswer of a session reads STARTED and is rolled  *)
(* back when its status update fails, and CalculateScore does not get past *)
(* a question without an answer.                                           *)
SessionShapes == {[status |-> SessionStatusStarted, ended |-> FALSE],
                  [status |-> SessionStatusTimeout, ended |-> FALSE], [status |-> SessionStatusTimeout, ended |-> TRUE]}

(* The status and end time of the rows that exam_sessions admits           *)
(* (part_005:3-13), whoever wrote them: any status of the enum, with an    *)
(* end time or without.  A store of such rows holds states the program     *)
(* and the sweep do not lead to, beside those they lead to: what holds of  *)
(* every behaviour from such a store holds of the program.                 *)
SchemaShapes == [status : SessionStatusSet, ended : BOOLEAN]

LiveShapes == {a \in SchemaShapes : a.status \in Live /\ ~a.ended}

(* The ids a request names for a session: the ids of the rows, a UUID that *)
(* no row has, and an id that is no UUID.                                  *)
AskedSessions == 1 .. MaxSessions + 1 \cup {MalformedSession}

(* The session_answers rows of a store of SchemaShapes rows: every session *)
(* that has left Started has answered q1 with "A".                         *)
GivenLedger(rows) == {[session |-> i, question |-> "q1", choice |-> "A"] : i \in {j \in DOMAIN rows : rows[j].status # SessionStatusStarted}}

GivenCommits(ledger) == [k \in {<<a.session, a.question>> : a \in ledger} |-> (CHOOSE a \in ledger : <<a.session, a.question>> = k).choice]

(* The tables beside exams and exam_sessions, for the sessions rows.       *)
InitBeside(rows) ==
    /\ questions = QuestionRows
    /\ answers = GivenLedger(rows)
    /\ lastCommit = GivenCommits(answers)
    /\ scores = <<>>
    /\ tin = NoTally
    /\ tout = [done |-> FALSE, score |-> NoScore]
    /\ now = Epoch
    /\ issued = Given(exams, questions)

(* Admission while exams are activated and deactivated: StartCalls         *)
(* StartSession requests and ExamCalls requests to the exam service, each  *)
(* served once.  Exam e1 is Created, Active or Finished and its row is     *)
(* full, which the schema admits and GetByID needs; e2 is Active with a    *)
(* start time only, or has no row.  The student s1 may already be sitting  *)
(* exam e1.                                                                *)
ExamSlots == StartCalls + 1 .. StartCalls + ExamCalls

InitAdmit ==
    /\ exams \in [Exams -> {NoExam, ExamStateCreated, ExamStateActive, ExamStateFinished}]
    /\ exams["e1"] # NoExam
    /\ exams["e2"] \in {NoExam, ExamStateActive}
    /\ examTimes = [e \in Exams |-> IF e = "e1" THEN FullRow ELSE TimesOf(ExamStateActive)]
    /\ sessions \in {<<>>} \cup {<<[AdmittedSession EXCEPT !.status = a.status]>> : a \in LiveShapes}
    /\ calls = [c \in 1 .. StartCalls + ExamCalls |-> IdleCall]
    /\ InitBeside(sessions)

NextAdmit ==
    \/ NextStart
    \/ \E c \in ExamSlots :
        \/ \E e \in Exams : ActivateExam_GetByID(c, e)
        \/ ActivateExam_UpdateStatus(c)
        \/ \E e \in Exams : DeactivateExam_GetByID(c, e)
        \/ DeactivateExam_UpdateStatus(c)

SpecAdmit == InitAdmit /\ [][NextAdmit]_vars

(* Admission as above on the store that the program leaves, exam_sessions  *)
(* empty or holding the Started session of s1, and with requests that name *)
(* an exam by an id that is no UUID.                                       *)
InitArrive == InitAdmit /\ \A i \in DOMAIN sessions : sessions[i].status = SessionStatusStarted

NextArrive ==
    \/ NextAdmit
    \/ \E c \in 1 .. StartCalls, st \in Students : StartSession_IsExamActive(c, MalformedExam, st)

SpecArrive == InitArrive /\ [][NextArrive]_vars

(* The answer ledger over any row the table admits: one session in any    *)
(* state of the lifecycle, with an end time or without, LedgerCalls        *)
(* request slots that are reused once their response is delivered.         *)
InitLedger ==
    /\ exams = [e \in Exams |-> ExamStateActive]
    /\ examTimes = [e \in Exams |-> TimesOf(ExamStateActive)]
    /\ \E a \in SchemaShapes : sessions = <<[AdmittedSession EXCEPT !.status = a.status, !.ended = a.ended]>>
    /\ calls = [c \in 1 .. LedgerCalls |-> IdleCall]
    /\ InitBeside(sessions)

(* The answer ledger over the store that the program and the sweep leave:  *)
(* one session, Started or timed out, and no answer.                       *)
InitSession ==
    /\ exams = [e \in Exams |-> ExamStateActive]
    /\ examTimes = [e \in Exams |-> TimesOf(ExamStateActive)]
    /\ \E a \in SessionShapes : sessions = <<[AdmittedSession EXCEPT !.status = a.status, !.ended = a.ended]>>
    /\ calls = [c \in 1 .. LedgerCalls |-> IdleCall]
    /\ InitStore

NextAnswers ==
    \E c \in 1 .. LedgerCalls :
        \/ \E sid \in AskedSessions, q \in QuestionIds, ch \in Keys : SubmitAnswer_TxStatus(c, sid, q, ch)
        \/ SubmitAnswer_Tx(c)
        \/ \E sid \in AskedSessions : FinishSession_GetSession(c, sid)
        \/ FinishSession_Finish(c)
        \/ Return(c)

NextLedger ==
    \/ NextAnswers
    \/ \E sid \in 1 .. MaxSessions, stamped \in BOOLEAN : TimeoutSweep(sid, stamped)

(* SubmitAnswer, FinishSession and the timeout sweep. *)
SpecLedger == InitLedger /\ [][NextLedger]_vars

SpecSession == InitSession /\ [][NextLedger]_vars

(* Scoring: one session, ScoreCalls CalculateScore and GetScore requests,   *)
(* each served once.                                                       *)
Ledgers == {l \in SUBSET [session : {1}, question : QuestionIds, choice : Choices] :
               \A a, b \in l : a.question = b.question => a = b}

(* The ledgers that the Session Manager's tables admit: the aggregator     *)
(* reads exam_sessions, questions and session_answers as it finds them.    *)
(* The session is in any state of the lifecycle, on either exam, with any  *)
(* ledger that goes with its status.                                       *)
InitAggregate ==
    /\ exams = [e \in Exams |-> ExamStateActive]
    /\ examTimes = [e \in Exams |-> TimesOf(ExamStateActive)]
    /\ \E e \in Exams, a \in SchemaShapes :
          sessions = <<[AdmittedSession EXCEPT !.exam = e, !.status = a.status, !.ended = a.ended]>>
    /\ questions = QuestionRows
    /\ answers \in Ledgers
    /\ sessions[1].status = SessionStatusStarted => answers = {}
    /\ sessions[1].status = SessionStatusInProgress => answers # {}
    /\ lastCommit = GivenCommits(answers)
    /\ scores = <<>>
    /\ calls = [c \in 1 .. ScoreCalls |-> IdleCall]
    /\ tin = NoTally
    /\ tout = [done |-> FALSE, score |-> NoScore]
    /\ now = Epoch
    /\ issued = Given(exams, questions)

(* The store that the program and the sweep leave: the session is Started  *)
(* or timed out, on either exam, and has no answer.                        *)
InitScore ==
    /\ exams = [e \in Exams |-> ExamStateActive]
    /\ examTimes = [e \in Exams |-> TimesOf(ExamStateActive)]
    /\ \E e \in Exams, a \in SessionShapes :
          sessions = <<[AdmittedSession EXCEPT !.exam = e, !.status = a.status, !.ended = a.ended]>>
    /\ calls = [c \in 1 .. ScoreCalls |-> IdleCall]
    /\ InitStore

NextScore ==
    \E c \in 1 .. ScoreCalls :
        \/ \E sid \in AskedSessions : CalculateScore_Handler(c, sid)
        \/ \E id \in 1 .. 2 : GetScore_Query(c, id)

SpecScore == InitScore /\ [][NextScore]_vars

SpecAggregate == InitAggregate /\ [][NextScore]_vars

(* The tally as a function of the rows GetCorrectAnswers hands over.       *)
RECURSIVE Lists(_)
Lists(n) == IF n = 0 THEN {<<>>} ELSE LET shorter == Lists(n - 1)
                                      IN shorter \cup {Append(l, a) : l \in {x \in shorter : Len(x) = n - 1}, a \in [correct : Keys, student : Choices]}

InitTally ==
    /\ exams = [e \in Exams |-> ExamStateActive]
    /\ examTimes = [e \in Exams |-> TimesOf(ExamStateActive)]
    /\ sessions = <<>>
    /\ questions = QuestionRows
    /\ answers = {}
    /\ lastCommit = [k \in {} |-> ""]
    /\ scores = <<>>
    /\ calls = <<>>
    /\ tin \in Lists(MaxTally)
    /\ tout = [done |-> FALSE, score |-> NoScore]
    /\ now = Epoch
    /\ issued = Given(exams, questions)

(* scoring service.go:37-53 applied to the rows in tin. *)
CalculateScore_Tally ==
    /\ ~tout.done
    /\ tout' = [done |-> TRUE, score |-> TallyScore(tin)]
    /\ UNCHANGED <<exams, examTimes, questions, sessions, answers, scores, calls, lastCommit, tin, now, issued>>

NextTally == CalculateScore_Tally

SpecTally == InitTally /\ [][NextTally]_vars

(* The remaining time as a function of the session, the duration and the  *)
(* clock.  The durations tried are short ones, the service's 120 minutes   *)
(* and LongExamMinutes; the clock is set by the time left to the deadline, *)
(* from a second past it to the whole duration.                            *)
LongExamMinutes == 262145

DurationChoices == {1, 2, examDurationMinutes, LongExamMinutes}

LeftChoices(m) ==
    {d \in [s : {0 - 1, 0, 1, 59, 60, 61, 119, 60 * m - 1, 60 * m}, n : {0, 1, 500000000, Nanos - 1}] :
        d.s < 60 * m \/ (d.s = 60 * m /\ d.n = 0)}

(* The instant d before the instant t. *)
Before(t, d) ==
    IF t.n >= d.n THEN [s |-> t.s - d.s, n |-> t.n - d.n]
    ELSE [s |-> t.s - d.s - 1, n |-> t.n + Nanos - d.n]

InitRemaining ==
    /\ exams = [e \in Exams |-> ExamStateActive]
    /\ examTimes = [e \in Exams |-> TimesOf(ExamStateActive)]
    /\ sessions = <<>>
    /\ questions = QuestionRows
    /\ answers = {}
    /\ lastCommit = [k \in {} |-> ""]
    /\ scores = <<>>
    /\ calls = <<>>
    /\ tin \in [status : SessionStatusSet, start : {Epoch, [s |-> 0, n |-> Nanos - 1]}, minutes : DurationChoices]
    /\ \E d \in LeftChoices(tin.minutes) : now = Before(AddMinutes(tin.start, tin.minutes), d)
    /\ tout = [done |-> FALSE, rt |-> NoTime]
    /\ issued = Given(exams, questions)

(* session.go:40-65 applied to the session in tin. *)
CalculateRemainingTime_Apply ==
    /\ ~tout.done
    /\ tout' = [done |-> TRUE, rt |-> CalculateRemainingTime(tin, tin.minutes)]
    /\ UNCHANGED <<exams, examTimes, questions, sessions, answers, scores, calls, lastCommit, tin, now, issued>>

NextRemaining == CalculateRemainingTime_Apply

SpecRemaining == InitRemaining /\ [][NextRemaining]_vars

(* A session while time passes, beside and after the deactivation of its   *)
(* exam: one session of student s1, Started or timed out, without an       *)
(* answer; ClockCalls requests, each served once.  The exams have full     *)
(* rows, e1 Active or Finished, e2 Active; exam e1 lasts 60 minutes, exam  *)
(* e2 120.                                                                 *)
ClockCalls == 2

DurationMins(e) == IF e = "e1" THEN 60 ELSE 120

ClockInstants == {[s |-> 60 * m, n |-> 0] : m \in {30, 60, 120}}

InitClock ==
    /\ exams \in [Exams -> {ExamStateActive, ExamStateFinished}]
    /\ exams["e2"] = ExamStateActive
    /\ examTimes = [e \in Exams |-> FullRow]
    /\ \E e \in Exams, a \in SessionShapes :
          sessions = <<[AdmittedSession EXCEPT !.exam = e, !.status = a.status, !.ended = a.ended]>>
    /\ calls = [c \in 1 .. ClockCalls |-> IdleCall]
    /\ InitStore

NextClock ==
    \/ \E c \in 1 .. ClockCalls :
        \/ \E sid \in 1 .. MaxSessions, q \in QuestionIds : SubmitAnswer_TxStatus(c, sid, q, "B")
        \/ SubmitAnswer_Tx(c)
        \/ \E sid \in 1 .. MaxSessions : FinishSession_GetSession(c, sid)
        \/ FinishSession_Finish(c)
        \/ \E sid \in AskedSessions : GetRemainingTime_GetSession(c, sid)
        \/ GetRemainingTime_Calculate(c)
        \/ \E e \in Exams : DeactivateExam_GetByID(c, e)
        \/ DeactivateExam_UpdateStatus(c)
    \/ \E sid \in 1 .. MaxSessions, stamped \in BOOLEAN : TimeoutSweep(sid, stamped)
    \/ \E t \in ClockInstants : Tick(t)

SpecClock == InitClock /\ [][NextClock]_vars

(* A recorded score while its session is used further: exam_scores holds   *)
(* the score of session 1, 1 of 2 correct, a row that the table admits;    *)
(* the session is Started with an empty ledger, or InProgress or Timeout   *)
(* with both questions answered, with an end time or without; ScoreCalls   *)
(* requests, each served once.                                             *)
KeptScore == ScoreRow(1, [CalculateScore([NoScore EXCEPT !.total = 2, !.correct = 1]) EXCEPT !.exam = "e1", !.student = "s1"])

InitKept ==
    /\ exams = [e \in Exams |-> ExamStateActive]
    /\ examTimes = [e \in Exams |-> TimesOf(ExamStateActive)]
    /\ \E a \in {x \in SchemaShapes : x.status # SessionStatusFinished} :
          sessions = <<[AdmittedSession EXCEPT !.status = a.status, !.ended = a.ended]>>
    /\ questions = QuestionRows
    /\ answers = IF sessions[1].status = SessionStatusStarted THEN {}
                 ELSE {[session |-> 1, question |-> q, choice |-> "A"] : q \in QuestionIds}
    /\ lastCommit = GivenCommits(answers)
    /\ scores = <<KeptScore>>
    /\ calls = [c \in 1 .. ScoreCalls |-> IdleCall]
    /\ tin = NoTally
    /\ tout = [done |-> FALSE, score |-> NoScore]
    /\ now = Epoch
    /\ issued = Given(exams, questions)

NextKept ==
    \E c \in 1 .. ScoreCalls :
        \/ \E sid \in 1 .. MaxSessions, q \in QuestionIds : SubmitAnswer_TxStatus(c, sid, q, "B")
        \/ SubmitAnswer_Tx(c)
        \/ \E sid \in 1 .. MaxSessions : FinishSession_GetSession(c, sid)
        \/ FinishSession_Finish(c)
        \/ \E sid \in 1 .. MaxSessions : CalculateScore_Handler(c, sid)
        \/ \E id \in 1 .. 2 : GetScore_Query(c, id)
        \/ \E e \in Exams, pageSize \in {0 - 1, 0, 1}, tokenLen \in {0, 36} : ListScores_Query(c, e, pageSize, tokenLen)

SpecKept == InitKept /\ [][NextKept]_vars

(* The exam service alone: ExamOps CreateExam, ActivateExam and           *)
(* DeactivateExam requests, each served once.  Exam e1 is in any state,    *)
(* with a full row; the id e2 has not been handed out.                     *)
ExamOps == 3

InitExam ==
    /\ exams \in [Exams -> {NoExam, ExamStateCreated, ExamStateActive, ExamStateFinished}]
    /\ exams["e1"] # NoExam
    /\ exams["e2"] = NoExam
    /\ examTimes = [e \in Exams |-> FullRow]
    /\ sessions = <<>>
    /\ calls = [c \in 1 .. ExamOps |-> IdleCall]
    /\ InitStore

NextExam ==
    \E c \in 1 .. ExamOps :
        \/ \E teacherIsUuid \in BOOLEAN, classIds \in ClassLists : CreateExam_Insert(c, teacherIsUuid, classIds)
        \/ CreateExam_Classes(c)
        \/ CreateExam_Commit(c)
        \/ \E e \in Exams : ActivateExam_GetByID(c, e)
        \/ ActivateExam_UpdateStatus(c)
        \/ \E e \in Exams : DeactivateExam_GetByID(c, e)
        \/ DeactivateExam_UpdateStatus(c)

SpecExam == InitExam /\ [][NextExam]_vars

(* Admission and the deletion of exams: DeleteCalls requests,             *)
(* StartSession or DeleteExam, each served once, with both exams Active    *)
(* and one question each, on a store without sessions.                     *)
DeleteCalls == 2

InitDelete ==
    /\ exams = [e \in Exams |-> ExamStateActive]
    /\ examTimes = [e \in Exams |-> TimesOf(ExamStateActive)]
    /\ questions = {[id |-> "q1", exam |-> "e1", correct |-> "A", created |-> 1],
                    [id |-> "q2", exam |-> "e2", correct |-> "B", created |-> 2]}
    /\ sessions = <<>>
    /\ answers = {}
    /\ lastCommit = [k \in {} |-> ""]
    /\ scores = <<>>
    /\ calls = [c \in 1 .. DeleteCalls |-> IdleCall]
    /\ tin = NoTally
    /\ tout = [done |-> FALSE, score |-> NoScore]
    /\ now = Epoch
    /\ issued = Given(exams, questions)

NextDelete ==
    \E c \in 1 .. DeleteCalls :
        \/ \E e \in Exams, st \in Students : StartSession_IsExamActive(c, e, st)
        \/ StartSession_HasActiveSession(c)
        \/ StartSession_TxExam(c)
        \/ StartSession_TxCount(c)
        \/ StartSession_TxInsert(c)
        \/ StartSession_TxCommit(c)
        \/ \E e \in Exams : DeleteExam_Delete(c, e)

SpecDelete == InitDelete /\ [][NextDelete]_vars

(* Two sessions side by side: the sessions of students s1 and s2 on exam   *)
(* e1, each any row that the table admits, PairCalls SubmitAnswer and      *)
(* FinishSession requests, each served once, beside the timeout sweep.     *)
PairCalls == 2

InitPair ==
    /\ exams = [e \in Exams |-> ExamStateActive]
    /\ examTimes = [e \in Exams |-> TimesOf(ExamStateActive)]
    /\ \E a, b \in SchemaShapes :
          sessions = <<[AdmittedSession EXCEPT !.status = a.status, !.ended = a.ended],
                       [AdmittedSession EXCEPT !.student = "s2", !.status = b.status, !.ended = b.ended]>>
    /\ calls = [c \in 1 .. PairCalls |-> IdleCall]
    /\ InitBeside(sessions)

NextPair ==
    \/ \E c \in 1 .. PairCalls :
        \/ \E sid \in 1 .. 2, q \in QuestionIds : SubmitAnswer_TxStatus(c, sid, q, "B")
        \/ SubmitAnswer_Tx(c)
        \/ \E sid \in 1 .. 2 : FinishSession_GetSession(c, sid)
        \/ FinishSession_Finish(c)
    \/ \E sid \in 1 .. 2, stamped \in BOOLEAN : TimeoutSweep(sid, stamped)

SpecPair == InitPair /\ [][NextPair]_vars

(* The question service: exams in any state, exam e1 without a question or *)
(* with its first one, QuestionCalls requests, each served once.           *)
QuestionCalls == 2

InitQuestion ==
    /\ exams \in [Exams -> {NoExam, ExamStateCreated, ExamStateActive, ExamStateFinished}]
    /\ exams["e1"] # NoExam
    /\ examTimes = [e \in Exams |-> TimesOf(exams[e])]
    /\ sessions = <<>>
    /\ calls = [c \in 1 .. QuestionCalls |-> IdleCall]
    /\ questions \in {{}, {[id |-> "q1", exam |-> "e1", correct |-> "A", created |-> 1]}}
    /\ answers = {}
    /\ scores = <<>>
    /\ lastCommit = [k \in {} |-> ""]
    /\ tin = NoTally
    /\ tout = [done |-> FALSE, score |-> NoScore]
    /\ now = Epoch
    /\ issued = Given(exams, questions)

NextQuestion ==
    \E c \in 1 .. QuestionCalls :
        \/ \E e \in Exams, key \in Keys, choiceCount \in 0 .. 1 : CreateQuestion_Begin(c, e, key, choiceCount)
        \/ CreateQuestion_Insert(c)
        \/ CreateQuestion_Choice(c)
        \/ CreateQuestion_Commit(c)
        \/ \E q \in QuestionIds, choiceCount \in 0 .. 1 : UpdateQuestion_Update(c, q, "B", choiceCount)
        \/ UpdateQuestion_DeleteChoices(c)
        \/ UpdateQuestion_Choice(c)
        \/ UpdateQuestion_Commit(c)
        \/ \E q \in QuestionIds : DeleteQuestion_Delete(c, q)
        \/ \E e \in Exams, randomize \in BOOLEAN, limit \in 0 - 1 .. 2 : GetExamQuestions_Query(c, e, randomize, limit)

SpecQuestion == InitQuestion /\ [][NextQuestion]_vars

(* Admission of students who have been examined before: exam_sessions is  *)
(* empty or holds one session of student s1, Started or timed out, on      *)
(* either exam; both exams are Active; StartCalls StartSession requests,   *)
(* each served once, while the sweep times sessions out.                   *)
InitRetake ==
    /\ exams = [e \in Exams |-> ExamStateActive]
    /\ examTimes = [e \in Exams |-> TimesOf(ExamStateActive)]
    /\ \/ sessions = <<>>
       \/ \E e \in Exams, a \in SessionShapes :
             sessions = <<[AdmittedSession EXCEPT !.exam = e, !.status = a.status, !.ended = a.ended]>>
    /\ calls = [c \in 1 .. StartCalls |-> IdleCall]
    /\ InitStore

NextRetake ==
    \/ \E c \in 1 .. StartCalls :
        \/ \E e \in Exams, st \in Students : StartSession_IsExamActive(c, e, st)
        \/ StartSession_HasActiveSession(c)
        \/ StartSession_TxExam(c)
        \/ StartSession_TxCount(c)
        \/ StartSession_TxInsert(c)
        \/ StartSession_TxCommit(c)
    \/ \E sid \in 1 .. StartCalls + 1, stamped \in BOOLEAN : TimeoutSweep(sid, stamped)

SpecRetake == InitRetake /\ [][NextRetake]_vars

(* The answer ledger over a store that can fail: one Started session,     *)
(* AbortCalls SubmitAnswer and DeleteQuestion requests, each served once   *)
(* or cut short by a store failure, beside the timeout sweep.              *)
AbortCalls == 2

InitAbort ==
    /\ exams = [e \in Exams |-> ExamStateActive]
    /\ examTimes = [e \in Exams |-> TimesOf(ExamStateActive)]
    /\ sessions = <<AdmittedSession>>
    /\ calls = [c \in 1 .. AbortCalls |-> IdleCall]
    /\ InitStore

NextAbort ==
    \/ \E c \in 1 .. AbortCalls :
        \/ \E sid \in 1 .. MaxSessions + 1, q \in QuestionIds, ch \in Keys : SubmitAnswer_TxStatus(c, sid, q, ch)
        \/ SubmitAnswer_Tx(c)
        \/ SubmitAnswer_StoreFailure(c)
        \/ \E q \in QuestionIds : DeleteQuestion_Delete(c, q)
    \/ \E sid \in 1 .. MaxSessions, stamped \in BOOLEAN : TimeoutSweep(sid, stamped)

SpecAbort == InitAbort /\ [][NextAbort]_vars

(* The end time of a session: one Started session, EndCalls SubmitAnswer   *)
(* and FinishSession requests, each served once, beside the timeout sweep  *)
(* and the clock.                                                          *)
EndCalls == 2

InitEnd ==
    /\ exams = [e \in Exams |-> ExamStateActive]
    /\ examTimes = [e \in Exams |-> TimesOf(ExamStateActive)]
    /\ sessions = <<AdmittedSession>>
    /\ calls = [c \in 1 .. EndCalls |-> IdleCall]
    /\ InitStore

NextEnd ==
    \/ \E c \in 1 .. EndCalls :
        \/ \E sid \in 1 .. MaxSessions, q \in QuestionIds : SubmitAnswer_TxStatus(c, sid, q, "A")
        \/ SubmitAnswer_Tx(c)
        \/ \E sid \in 1 .. MaxSessions : FinishSession_GetSession(c, sid)
        \/ FinishSession_Finish(c)
    \/ \E sid \in 1 .. MaxSessions, stamped \in BOOLEAN : TimeoutSweep(sid, stamped)
    \/ \E t \in ClockInstants : Tick(t)

SpecEnd == InitEnd /\ [][NextEnd]_vars

(* The whole core on an empty store: SlotCount request slots, reused once  *)
(* their response is delivered, at most MaxSessions admissions.            *)
Init ==
    /\ exams \in [Exams -> {ExamStateCreated, ExamStateActive}]
    /\ exams["e1"] = ExamStateActive
    /\ examTimes = [e \in Exams |-> TimesOf(exams[e])]
    /\ sessions = <<>>
    /\ calls = [c \in 1 .. SlotCount |-> IdleCall]
    /\ InitStore

StartsInFlight == Cardinality({c \in DOMAIN calls : calls[c].op = "StartSession" /\ calls[c].pc \in {"ss_hasActive", "ss_txExam", "ss_txCount", "ss_txInsert"}})

Next ==
    \/ \E c \in 1 .. SlotCount :
        \/ \E e \in ExamIds, st \in Students : Len(sessions) + StartsInFlight < MaxSessions /\ StartSession_IsExamActive(c, e, st)
        \/ StartSession_HasActiveSession(c)
        \/ StartSession_TxExam(c)
        \/ StartSession_TxCount(c)
        \/ StartSession_TxInsert(c)
        \/ StartSession_TxCommit(c)
        \/ \E sid \in AskedSessions, q \in QuestionIds, ch \in Choices : SubmitAnswer_TxStatus(c, sid, q, ch)
        \/ SubmitAnswer_Tx(c)
        \/ \E sid \in AskedSessions : FinishSession_GetSession(c, sid)
        \/ FinishSession_Finish(c)
        \/ \E sid \in AskedSessions : CalculateScore_Handler(c, sid)
        \/ Return(c)
    \/ \E sid \in 1 .. MaxSessions, stamped \in BOOLEAN : TimeoutSweep(sid, stamped)

Spec == Init /\ [][Next]_vars

---------------------------------------------------------------------------
(* Session admission.                                                      *)

(* C1: at every instant each student has at most one committed session     *)
(* whose status is Started or InProgress, whatever the interleaving of     *)
(* concurrent StartSession calls.                                          *)
C1_OneLiveSessionPerStudent == \A st \in Students : ActiveCount(st, 0) <= 1

AllDone == \A c \in DOMAIN calls : calls[c].pc = "done"

SameStudentActiveExams ==
    /\ \A c \in DOMAIN calls : calls[c].op = "StartSession" /\ exams[calls[c].exam] = ExamStateActive
    /\ \A c, d \in DOMAIN calls : calls[c].student = calls[d].student

(* C2: when all StartSession calls of one student, issued against Active   *)
(* exams while the student has no live session, have returned, exactly one *)
(* of them succeeded and every other one failed with FailedPrecondition.   *)
C2_ExactlyOneStartSucceeds ==
    (AllDone /\ SameStudentActiveExams) =>
        /\ Cardinality({c \in DOMAIN calls : calls[c].code = OK}) = 1
        /\ \A c \in DOMAIN calls : calls[c].code \in {OK, FailedPrecondition}

---------------------------------------------------------------------------
(* Session status and the answer ledger.                                   *)

Forward == {<<SessionStatusStarted, SessionStatusInProgress>>, <<SessionStatusStarted, SessionStatusFinished>>,
            <<SessionStatusInProgress, SessionStatusFinished>>, <<SessionStatusStarted, SessionStatusTimeout>>,
            <<SessionStatusInProgress, SessionStatusTimeout>>}

(* C3: in every step the status of every session either stays or moves     *)
(* forward along Started -> InProgress -> Finished | Timeout; a Finished or *)
(* Timeout session keeps its status and InProgress never returns to        *)
(* Started.                                                                *)
C3_StatusMovesForward ==
    [][\A i \in SessionIds : \/ sessions'[i].status = sessions[i].status
                             \/ <<sessions[i].status, sessions'[i].status>> \in Forward]_vars

LedgerOf(rows, i) == {a \in rows : a.session = i}

(* An answer was accepted for an InProgress session, the sweep then moved  *)
(* the session to Timeout, and a FinishSession that came after it ran its  *)
(* status update and left the session Timeout.                             *)
C3_Witness ==
    \E c, d \in DOMAIN calls :
        /\ calls[c].op = "SubmitAnswer" /\ calls[c].pc = "done" /\ calls[c].code = OK
        /\ calls[c].seen = SessionStatusInProgress
        /\ calls[d].op = "FinishSession" /\ calls[d].pc = "done" /\ calls[d].session = calls[c].session
        /\ calls[d].seen = SessionStatusTimeout /\ calls[d].msg = "failed to finish session"
        /\ sessions[calls[c].session].status = SessionStatusTimeout

(* C4: once a session's status is Finished or Timeout no step adds or      *)
(* replaces an answer of its ledger.                                       *)
C4_TerminalLedgerFrozen ==
    [][\A i \in SessionIds : sessions[i].status \in Terminal => LedgerOf(answers', i) = LedgerOf(answers, i)]_vars

(* A SubmitAnswer read the session Started and sent its upsert, the sweep  *)
(* then moved the session to Timeout while the call was on its way to its  *)
(* status update; a SubmitAnswer that came afterwards has been turned      *)
(* away, and the ledger of the session is empty.                           *)
C4_Witness ==
    \E c, d \in DOMAIN calls :
        /\ calls[c].op = "SubmitAnswer" /\ calls[c].pc = "sa_update" /\ calls[c].seen = SessionStatusStarted
        /\ SessionVisible(calls[c].session) /\ sessions[calls[c].session].status = SessionStatusTimeout
        /\ calls[d].op = "SubmitAnswer" /\ calls[d].pc = "done" /\ calls[d].code = FailedPrecondition
        /\ calls[d].session = calls[c].session
        /\ LedgerOf(answers, calls[c].session) = {}

(* C5: the ledger holds at most one answer per (session, question), and    *)
(* the stored choice of every answered question is the choice of the last  *)
(* committed SubmitAnswer for it.                                          *)
C5_LastCommittedAnswerWins ==
    /\ \A a, b \in answers : (a.session = b.session /\ a.question = b.question) => a = b
    /\ \A a \in answers : <<a.session, a.question>> \in DOMAIN lastCommit /\ lastCommit[<<a.session, a.question>>] = a.choice
    /\ \A k \in DOMAIN lastCommit : \E a \in answers : <<a.session, a.question>> = k

(* "A" then "B" were both committed for the same question and one row with *)
(* "B" is stored.                                                          *)
C5_Witness ==
    \E c, d \in DOMAIN calls :
        /\ calls[c].op = "SubmitAnswer" /\ calls[c].code = OK /\ calls[c].choice = "A"
        /\ calls[d].op = "SubmitAnswer" /\ calls[d].code = OK /\ calls[d].choice = "B"
        /\ calls[c].session = calls[d].session /\ calls[c].question = calls[d].question
        /\ LedgerOf(answers, calls[c].session) = {[session |-> calls[c].session, question |-> calls[c].question, choice |-> "B"]}

---------------------------------------------------------------------------
(* Scoring.                                                                *)

C7_AtMostOneScore ==
    /\ \A i, j \in ScoreIds : (scores[i].exam = scores[j].exam /\ scores[i].student = scores[j].student) => i = j
    /\ \A c, d \in DOMAIN calls :
          (c # d /\ calls[c].op = "CalculateScore" /\ calls[d].op = "CalculateScore" /\ calls[c].session = calls[d].session)
              => ~(calls[c].code = OK /\ calls[d].code = OK)

(* Two overlapping CalculateScore calls for one session have both run      *)
(* their CreateScore.                                                      *)
C7_Witness ==
    \E c, d \in DOMAIN calls :
        /\ c # d /\ calls[c].session = calls[d].session
        /\ calls[c].pc = "done" /\ ReachedCreate(c) /\ ~calls[c].later
        /\ calls[d].pc = "done" /\ ReachedCreate(d) /\ ~calls[d].later

(* C8: every tallied score has correct + wrong + unanswered equal to its   *)
(* total, the total being the number of rows tallied, and no count is      *)
(* negative.                                                               *)
C8_CountsAddUp ==
    tout.done =>
        /\ tout.score.total = Len(tin)
        /\ tout.score.correct + tout.score.wrong + tout.score.unanswered = tout.score.total
        /\ tout.score.correct >= 0 /\ tout.score.wrong >= 0 /\ tout.score.unanswered >= 0

C8_Witness == tout.done /\ tout.score.correct >= 1 /\ tout.score.wrong >= 1 /\ tout.score.unanswered >= 1

ExamQuestionsOf(sid) == {r \in questions : r.exam = sessions[sid].exam}

Submitted(sid, q) ==
    IF \E a \in answers : a.session = sid /\ a.question = q
    THEN (CHOOSE a \in answers : a.session = sid /\ a.question = q).choice
    ELSE ""

(* C9: CalculateScore on a session whose exam has questions tallies one    *)
(* bucket per exam question: the total is the number of the exam's         *)
(* questions, a question without a submitted choice (no answer, or the     *)
(* empty choice) is unanswered, one whose choice equals the key is         *)
(* correct, every other one is wrong.                                      *)
C9_TallyPerExamQuestion ==
    [][\A c \in DOMAIN calls :
          (/\ calls[c].pc = "idle"
           /\ calls'[c].op = "CalculateScore"
           /\ SessionVisible(calls'[c].session)
           /\ ExamQuestionsOf(calls'[c].session) # {})
          => LET sid == calls'[c].session
                 qs == ExamQuestionsOf(sid)
                 none == {r \in qs : Submitted(sid, r.id) = ""}
                 right == {r \in qs \ none : Submitted(sid, r.id) = r.correct}
                 sc == calls'[c].score
             IN /\ calls'[c].pc = "cs_create"
                /\ sc.total = Cardinality(qs)
                /\ sc.unanswered = Cardinality(none)
                /\ sc.correct = Cardinality(right)
                /\ sc.wrong = Cardinality(qs) - Cardinality(none) - Cardinality(right)]_vars

F32Is(x, n) == x.sm = n * Pow2(0 - x.se)

(* C10: the score is correct / total * 100 in single precision: 0 when the *)
(* total is 0 or nothing is correct, else within two roundings (a relative *)
(* error of 2^-22) of the exact percentage; 1 of 5 is 20 and 2 of 5 is 40. *)
C10_ScoreIsPercentage ==
    tout.done =>
        LET sc == tout.score
            exact == 100 * sc.correct * Pow2(0 - sc.se)
            diff == sc.sm * sc.total - exact
        IN /\ (sc.total = 0 \/ sc.correct = 0) => sc.sm = 0
           /\ (sc.total > 0 /\ sc.correct > 0) =>
                 /\ sc.sm >= F32Half /\ sc.sm < F32Full
                 /\ (IF diff >= 0 THEN diff ELSE 0 - diff) <= exact \div 4194304
           /\ (sc.total = 5 /\ sc.correct = 1) => F32Is(sc, 20)
           /\ (sc.total = 5 /\ sc.correct = 2) => F32Is(sc, 40)

C10_Witness == tout.done /\ tout.score.total = 5 /\ tout.score.correct = 1 /\ F32Is(tout.score, 20)

---------------------------------------------------------------------------
(* Admission and the exam's state.                                         *)

(* C11: whenever StartSession commits its new session, the session's exam  *)
(* is Active at that moment, whatever ActivateExam and DeactivateExam      *)
(* calls interleave with it.                                               *)
C11_CommittedWhileExamActive ==
    [][\A c \in DOMAIN calls :
          (calls[c].op = "StartSession" /\ calls[c].pc = "ss_txCommit" /\ calls'[c].pc = "done")
              => exams'[calls[c].exam] = ExamStateActive]_vars

(* A StartSession has committed its session on an exam for which a         *)
(* DeactivateExam call has run its status update.                          *)
C11_Witness ==
    \E c, d \in DOMAIN calls :
        /\ calls[c].op = "StartSession" /\ calls[c].pc = "done" /\ calls[c].code = OK
        /\ calls[c].session \in SessionIds /\ Committed(calls[c].session)
        /\ calls[d].op = "DeactivateExam" /\ calls[d].pc = "done" /\ calls[d].exam = calls[c].exam
        /\ calls[d].msg = "failed to deactivate exam"
        /\ exams[calls[c].exam] = ExamStateActive

(* C12: a StartSession that arrives while its exam exists in state Created *)
(* or Finished returns FailedPrecondition and persists no session.         *)
C12_InactiveExamRejected ==
    [][\A c \in DOMAIN calls :
          (/\ calls[c].pc = "idle"
           /\ calls'[c].op = "StartSession"
           /\ exams[calls'[c].exam] \in {ExamStateCreated, ExamStateFinished})
          => /\ calls'[c].pc = "done"
             /\ calls'[c].code = FailedPrecondition
             /\ sessions' = sessions]_vars

C12_Witness ==
    \E c \in DOMAIN calls :
        /\ calls[c].op = "StartSession" /\ calls[c].pc = "done"
        /\ calls[c].code = FailedPrecondition /\ calls[c].msg = "exam is not active"
        /\ exams[calls[c].exam] = ExamStateFinished
        /\ \A i \in SessionIds : ~(sessions[i].exam = calls[c].exam /\ sessions[i].student = calls[c].student)

(* C13: a StartSession for an Active exam, arriving while the student      *)
(* holds a Started or InProgress session on another exam, returns          *)
(* FailedPrecondition and inserts no session.                              *)
C13_LiveElsewhereRejected ==
    \A c \in DOMAIN calls :
        (calls[c].op = "StartSession" /\ calls[c].seen = "live") =>
            /\ calls[c].session = 0
            /\ calls[c].pc \in {"ss_hasActive", "done"}
            /\ calls[c].pc = "done" =>
                  (calls[c].code = FailedPrecondition /\ calls[c].msg = "student already has an active session")

C13_Witness ==
    \E c \in DOMAIN calls :
        /\ calls[c].op = "StartSession" /\ calls[c].seen = "live" /\ calls[c].pc = "done"
        /\ calls[c].code = FailedPrecondition
        /\ Len(sessions) = 1
        /\ sessions[1].status = SessionStatusInProgress

(* The cause a StartSession rejection reports, read off its status code    *)
(* and message.                                                            *)
ReportedCause(code, msg) ==
    IF (code = NotFound /\ msg = "exam not found") \/ (code = Internal /\ msg = "failed to start session: exam not found")
    THEN "exam not found"
    ELSE IF (code = FailedPrecondition /\ msg = "exam is not active") \/ (code = Internal /\ msg = "failed to start session: exam is not active")
    THEN "exam not active"
    ELSE IF (code = FailedPrecondition /\ msg = "student already has an active session")
            \/ (code = Internal /\ msg = "failed to start session: student already has an active session")
    THEN "live session"
    ELSE "other"

(* The state of the exams row with id e, NoExam when no row has the id.    *)
ExamRow(e) == IF e \in Exams THEN exams[e] ELSE NoExam

(* C14: a StartSession that arrives for an exam id without a row returns   *)
(* NotFound, and the code and message of every StartSession rejection name *)
(* a cause that holds at the rejecting step: a report of a missing exam    *)
(* is made only when the exam has no row, a report of an inactive exam     *)
(* only when it is Created or Finished, a report of a live session only    *)
(* when the student has one; every other rejection is a failed INSERT.     *)
C14_RejectionsDistinguishable ==
    [][\A c \in DOMAIN calls :
          (/\ calls'[c].op = "StartSession"
           /\ calls[c].pc # "done"
           /\ calls'[c].pc = "done"
           /\ calls'[c].code # OK)
          => LET e == calls'[c].exam
                 st == calls'[c].student
                 cause == ReportedCause(calls'[c].code, calls'[c].msg)
             IN /\ (calls[c].pc = "idle" /\ ExamRow(e) = NoExam) => calls'[c].code = NotFound
                /\ cause = "exam not found" => ExamRow(e) = NoExam
                /\ cause = "exam not active" => ExamRow(e) \in {ExamStateCreated, ExamStateFinished}
                /\ cause = "live session" => ActiveCount(st, c) > 0
                /\ cause = "other" => calls[c].pc = "ss_txInsert"]_vars

(* C15: a StartSession call adds a session row in its INSERT and nowhere   *)
(* else, and when it succeeds its row is committed with the requested exam *)
(* and student, status Started, no end time and an empty ledger, every     *)
(* other row is as before, and the session returned has status Started.    *)
C15_StartPersistsStartedSession ==
    [][\A c \in DOMAIN calls :
          (calls'[c].op = "StartSession" /\ calls'[c] # calls[c]) =>
              /\ Len(sessions') = Len(sessions) + (IF calls[c].pc = "ss_txInsert" /\ calls'[c].pc = "ss_txCommit" THEN 1 ELSE 0)
              /\ calls'[c].code = OK =>
                    LET i == calls'[c].session
                    IN /\ i \in 1 .. Len(sessions')
                       /\ sessions'[i] = [exam |-> calls'[c].exam, student |-> calls'[c].student,
                                          status |-> SessionStatusStarted, start |-> calls'[c].start,
                                          ended |-> FALSE, endTime |-> Epoch, tx |-> 0]
                       /\ \A j \in 1 .. Len(sessions) : j # i => sessions'[j] = sessions[j]
                       /\ {a \in answers' : a.session = i} = {}
                       /\ calls'[c].resp = "SESSION_STATUS_STARTED"]_vars

C15_Witness ==
    \E c \in DOMAIN calls :
        /\ calls[c].op = "StartSession" /\ calls[c].pc = "done" /\ calls[c].code = OK
        /\ calls[c].session \in SessionIds
        /\ sessions[calls[c].session].status = SessionStatusStarted
        /\ Committed(calls[c].session)

---------------------------------------------------------------------------
(* SubmitAnswer and FinishSession, one call at a time.                     *)

C17_TerminalOrMissingRejected ==
    [][\A c \in DOMAIN calls :
          (calls[c].pc = "idle" /\ calls'[c].op = "SubmitAnswer") =>
              LET sid == calls'[c].session
              IN /\ ~SessionVisible(sid) =>
                        (calls'[c].pc = "done" /\ calls'[c].code = NotFound /\ sessions' = sessions /\ answers' = answers)
                 /\ (SessionVisible(sid) /\ sessions[sid].status \in Terminal) =>
                        (calls'[c].pc = "done" /\ calls'[c].code = FailedPrecondition /\ sessions' = sessions /\ answers' = answers)]_vars

(* C18: a FinishSession that arrives for a Started or InProgress session   *)
(* is accepted, and its finishing step sets the status to Finished, sets   *)
(* the end time, leaves the ledger as it is and returns the session with   *)
(* status Finished.                                                        *)
C18_FinishLiveSession ==
    [][\A c \in DOMAIN calls :
          /\ (calls[c].pc = "idle" /\ calls'[c].op = "FinishSession"
                /\ SessionVisible(calls'[c].session) /\ sessions[calls'[c].session].status \in Live)
               => calls'[c].pc = "fs_finish"
          /\ (calls[c].op = "FinishSession" /\ calls[c].pc = "fs_finish" /\ calls'[c].pc = "done" /\ calls[c].seen \in Live)
               => /\ calls'[c].code = OK
                  /\ sessions'[calls[c].session].status = SessionStatusFinished
                  /\ sessions'[calls[c].session].ended
                  /\ answers' = answers
                  /\ calls'[c].resp = "SESSION_STATUS_FINISHED"]_vars

(* C19: a FinishSession that arrives for a session id without a row        *)
(* returns NotFound, one that arrives for a Finished session returns       *)
(* FailedPrecondition, and in both cases no session changes.               *)
C19_FinishMissingOrFinishedRejected ==
    [][\A c \in DOMAIN calls :
          (calls[c].pc = "idle" /\ calls'[c].op = "FinishSession") =>
              LET sid == calls'[c].session
              IN /\ ~SessionVisible(sid) =>
                        (calls'[c].pc = "done" /\ calls'[c].code = NotFound /\ sessions' = sessions)
                 /\ (SessionVisible(sid) /\ sessions[sid].status = SessionStatusFinished) =>
                        (calls'[c].pc = "done" /\ calls'[c].code = FailedPrecondition /\ sessions' = sessions)]_vars

(* C20: a FinishSession that arrives for a Timeout session returns         *)
(* FailedPrecondition, and no step of a FinishSession call takes a session *)
(* out of Timeout.                                                         *)
C20_FinishTimeoutRejected ==
    [][\A c \in DOMAIN calls :
          /\ (calls[c].pc = "idle" /\ calls'[c].op = "FinishSession"
                /\ SessionVisible(calls'[c].session) /\ sessions[calls'[c].session].status = SessionStatusTimeout)
               => (calls'[c].pc = "done" /\ calls'[c].code = FailedPrecondition)
          /\ (calls[c].op = "FinishSession" /\ calls[c].pc = "fs_finish" /\ calls'[c].pc = "done"
                /\ sessions[calls[c].session].status = SessionStatusTimeout)
               => sessions'[calls[c].session].status = SessionStatusTimeout]_vars

---------------------------------------------------------------------------
(* Sessions and the later life of their exam.                              *)

(* C21: a SubmitAnswer or FinishSession that arrives for a Started or      *)
(* InProgress session whose exam has been deactivated (state Finished) is  *)
(* accepted, the accepted FinishSession succeeds and leaves the session    *)
(* Finished, and the accepted SubmitAnswer is not turned away on account   *)
(* of the exam.                                                            *)
C21_LiveSessionOutlivesExam ==
    [][\A c \in DOMAIN calls :
          /\ (/\ calls[c].pc = "idle"
              /\ calls'[c].op \in {"SubmitAnswer", "FinishSession"}
              /\ SessionVisible(calls'[c].session)
              /\ sessions[calls'[c].session].status \in Live
              /\ exams[sessions[calls'[c].session].exam] = ExamStateFinished)
             => calls'[c].pc \in {"sa_txUpsert", "fs_finish"}
          /\ (/\ calls[c].op = "FinishSession" /\ calls[c].pc = "fs_finish" /\ calls'[c].pc = "done"
              /\ calls[c].seen \in Live
              /\ exams[sessions[calls[c].session].exam] = ExamStateFinished)
             => (calls'[c].code = OK /\ sessions'[calls[c].session].status = SessionStatusFinished)
          /\ (/\ calls[c].op = "SubmitAnswer" /\ calls[c].pc = "sa_txCommit" /\ calls'[c].pc = "done"
              /\ exams[sessions[calls[c].session].exam] = ExamStateFinished)
             => calls'[c].code = OK]_vars

---------------------------------------------------------------------------
(* Remaining time.                                                         *)

(* C22: a GetRemainingTime that arrives for a Finished or Timeout session  *)
(* is answered with {0, 0}, whatever the start time, the duration and the  *)
(* clock.                                                                  *)
C22_TerminalSessionHasNoTimeLeft ==
    [][\A c \in DOMAIN calls :
          /\ (/\ calls[c].pc = "idle"
              /\ calls'[c].op = "GetRemainingTime"
              /\ SessionVisible(calls'[c].session)
              /\ sessions[calls'[c].session].status \in Terminal)
             => (calls'[c].pc = "rt_calculate" /\ calls'[c].seen = sessions[calls'[c].session].status)
          /\ (/\ calls[c].op = "GetRemainingTime" /\ calls[c].pc = "rt_calculate" /\ calls'[c].pc = "done"
              /\ calls[c].seen \in Terminal)
             => (calls'[c].code = OK /\ calls'[c].rt = NoTime)]_vars

(* C23: a GetRemainingTime that arrives for a Started or InProgress        *)
(* session is answered with (start + exam duration) - now for the duration *)
(* of the session's own exam, so that sessions started together on exams   *)
(* of different durations are given different times.                       *)
C23_RemainingUsesExamDuration ==
    [][\A c \in DOMAIN calls :
          /\ (/\ calls[c].pc = "idle"
              /\ calls'[c].op = "GetRemainingTime"
              /\ SessionVisible(calls'[c].session)
              /\ sessions[calls'[c].session].status \in Live)
             => calls'[c].pc = "rt_calculate"
          /\ (/\ calls[c].op = "GetRemainingTime" /\ calls[c].pc = "rt_calculate" /\ calls'[c].pc = "done"
              /\ calls[c].seen \in Live)
             => /\ calls'[c].code = OK
                /\ calls'[c].rt = CalculateRemainingTime([status |-> calls[c].seen, start |-> calls[c].start],
                                                         DurationMins(sessions[calls[c].session].exam))]_vars

(* C24: for a live session and a duration of D minutes the remaining time  *)
(* is {0, 0} when the clock is at or past start + D; otherwise its minutes *)
(* are not negative, its seconds lie in 0 .. 59, minutes * 60 + seconds is *)
(* the number of whole seconds left until start + D, and the result does   *)
(* not exceed D minutes.                                                   *)
C24_RemainingIsWholeSecondsLeft ==
    (tout.done /\ tin.status \in Live) =>
        LET left == Until(AddMinutes(tin.start, tin.minutes))
            rt == tout.rt
        IN IF left.s < 0 \/ (left.s = 0 /\ left.n = 0)
           THEN rt = NoTime
           ELSE /\ rt.minutes >= 0
                /\ rt.seconds >= 0 /\ rt.seconds <= 59
                /\ rt.minutes * 60 + rt.seconds = left.s
                /\ rt.minutes * 60 + rt.seconds <= tin.minutes * 60

(* C25: no step of a GetRemainingTime call changes a session or a ledger,  *)
(* the passing of time changes no session, and a SubmitAnswer or           *)
(* FinishSession that arrives for a Started or InProgress session with no  *)
(* time left is accepted.                                                  *)
C25_RemainingTimeIsAdvisory ==
    [][/\ \A c \in DOMAIN calls :
            (calls'[c].op = "GetRemainingTime" /\ calls'[c] # calls[c]) => (sessions' = sessions /\ answers' = answers)
       /\ now' # now => (sessions' = sessions /\ answers' = answers)
       /\ \A c \in DOMAIN calls :
            (/\ calls[c].pc = "idle"
             /\ calls'[c].op \in {"SubmitAnswer", "FinishSession"}
             /\ SessionVisible(calls'[c].session)
             /\ sessions[calls'[c].session].status \in Live
             /\ CalculateRemainingTime(sessions[calls'[c].session], examDurationMinutes) = NoTime)
            => calls'[c].pc \in {"sa_txUpsert", "fs_finish"}]_vars

---------------------------------------------------------------------------
(* Scores.                                                                 *)

(* C26: a CalculateScore that arrives for a session id for which the store *)
(* resolves no ledger/key row, because no such session exists or because   *)
(* its exam has no question, returns NotFound and no score is persisted.   *)
C26_UnresolvableSessionNotFound ==
    [][\A c \in DOMAIN calls :
          (/\ calls[c].pc = "idle"
           /\ calls'[c].op = "CalculateScore"
           /\ (~SessionVisible(calls'[c].session) \/ ExamQuestionsOf(calls'[c].session) = {}))
          => /\ calls'[c].pc = "done"
             /\ calls'[c].code = NotFound
             /\ scores' = scores]_vars

C28_ScoresNeverChange ==
    [][\A i \in ScoreIds : i <= Len(scores') /\ scores'[i] = scores[i]]_vars

(* The session of the recorded score has been scored again and the         *)
(* recorded score has been read back unchanged.                            *)
C28_Witness ==
    /\ scores = <<KeptScore>>
    /\ \E c, d \in DOMAIN calls :
          /\ calls[c].op = "CalculateScore" /\ calls[c].pc = "done" /\ ReachedCreate(c)
          /\ calls[c].session = KeptScore.session
          /\ calls[d].op = "GetScore" /\ calls[d].pc = "done" /\ calls[d].code = OK
          /\ calls[d].rows = <<KeptScore>>

---------------------------------------------------------------------------
(* The exam's state and the lifetime of sessions.                          *)

(* C29: in every step, whatever ActivateExam and DeactivateExam calls      *)
(* interleave, the state of an exam stays as it is or moves from Created   *)
(* to Active or from Active to Finished; it never returns from Finished to *)
(* Active nor from Active to Created.                                      *)
C29_ExamStateMonotonic ==
    [][\A e \in Exams : \/ exams'[e] = exams[e]
                         \/ exams[e] = NoExam
                         \/ <<exams[e], exams'[e]>> \in {<<ExamStateCreated, ExamStateActive>>,
                                                         <<ExamStateActive, ExamStateFinished>>}]_vars

(* An ActivateExam call on a Created exam and a later ActivateExam call on *)
(* it have both run their status update beside the creation of another     *)
(* exam, and the exam is Created.                                          *)
C29_Witness ==
    \E c, d, k \in DOMAIN calls :
        /\ c # d
        /\ calls[c].op = "ActivateExam" /\ calls[c].pc = "done" /\ calls[c].msg = "failed to activate exam"
        /\ calls[d].op = "ActivateExam" /\ calls[d].pc = "done" /\ calls[d].msg = "failed to activate exam"
        /\ calls[c].exam = calls[d].exam /\ exams[calls[c].exam] = ExamStateCreated
        /\ calls[k].op = "CreateExam" /\ calls[k].pc = "done" /\ calls[k].code = OK
        /\ exams[calls[k].exam] = ExamStateCreated

(* C30: a session that has been created stays in the store: no step of any *)
(* operation, DeleteExam on the session's exam included, removes a         *)
(* committed session.                                                      *)
C30_SessionsNeverDeleted ==
    [][\A i \in SessionIds : Committed(i) => (i \in 1 .. Len(sessions') /\ sessions'[i].tx = 0)]_vars

---------------------------------------------------------------------------
(* Independence of sessions.                                               *)

(* C31: a step of a SubmitAnswer or FinishSession call on one session      *)
(* leaves the row (status, end time) and the ledger of every other session *)
(* unchanged, and a step of a SubmitAnswer call for one question leaves    *)
(* the stored answers to the other questions of its session unchanged.     *)
C31_SessionsIndependent ==
    [][\A c \in DOMAIN calls :
          (calls'[c] # calls[c] /\ calls'[c].op \in {"SubmitAnswer", "FinishSession"}) =>
              /\ \A i \in SessionIds : i # calls'[c].session =>
                     /\ sessions'[i] = sessions[i]
                     /\ LedgerOf(answers', i) = LedgerOf(answers, i)
              /\ calls'[c].op = "SubmitAnswer" =>
                     {a \in LedgerOf(answers', calls'[c].session) : a.question # calls'[c].question}
                         = {a \in LedgerOf(answers, calls'[c].session) : a.question # calls'[c].question}]_vars

(* Session 1 has taken "B" for q2 beside its "A" for q1 and a              *)
(* FinishSession on it has run its status update, while session 2 is still *)
(* InProgress with its own ledger.                                         *)
C31_Witness ==
    /\ \E c, d \in DOMAIN calls :
          /\ calls[c].op = "FinishSession" /\ calls[c].session = 1 /\ calls[c].pc = "done"
          /\ calls[c].msg = "failed to finish session"
          /\ calls[d].op = "SubmitAnswer" /\ calls[d].session = 1 /\ calls[d].question = "q2" /\ calls[d].code = OK
    /\ Len(sessions) = 2
    /\ sessions[1].status = SessionStatusTimeout
    /\ sessions[2].status = SessionStatusInProgress /\ ~sessions[2].ended
    /\ LedgerOf(answers, 1) = {[session |-> 1, question |-> "q1", choice |-> "A"], [session |-> 1, question |-> "q2", choice |-> "B"]}
    /\ LedgerOf(answers, 2) = {[session |-> 2, question |-> "q1", choice |-> "A"]}

---------------------------------------------------------------------------
(* The question service and the exam state.                                *)

(* C32: a GetExamQuestions call for an exam that exists and is not Active  *)
(* fails with FailedPrecondition and returns no questions.                 *)
C32_QuestionsOfInactiveExamRefused ==
    [][\A c \in DOMAIN calls :
          (/\ calls[c].pc = "idle" /\ calls'[c].pc = "done" /\ calls'[c].op = "GetExamQuestions"
           /\ exams[calls'[c].exam] \in {ExamStateCreated, ExamStateFinished})
             => calls'[c].code = FailedPrecondition /\ calls'[c].rows = <<>>]_vars

(* C33: a CreateQuestion call for an exam that is Active ends with         *)
(* FailedPrecondition and leaves the stored questions as they were.        *)
C33_NoQuestionForActiveExam ==
    [][\A c \in DOMAIN calls :
          (/\ calls[c].pc # "done" /\ calls'[c].pc = "done" /\ calls'[c].op = "CreateQuestion"
           /\ exams[calls'[c].exam] = ExamStateActive)
             => calls'[c].code = FailedPrecondition /\ questions' = questions]_vars

---------------------------------------------------------------------------
(* Admission of a student with earlier sessions.                           *)

(* C34: no check of a StartSession call turns the call away while the exam *)
(* is Active and the student has no committed session in Started or        *)
(* InProgress: a call that ends at such a moment ends with OK, whatever    *)
(* Finished or Timeout sessions the student has, on this or another exam.  *)
C34_AdmittedUnlessLive ==
    [][\A c \in DOMAIN calls :
          (/\ calls'[c].op = "StartSession" /\ calls[c].pc # "done" /\ calls'[c].pc = "done"
           /\ exams[calls'[c].exam] = ExamStateActive
           /\ ActiveCount(calls'[c].student, 0) = 0)
             => calls'[c].code = OK]_vars

(* C39: no two committed sessions have the same exam and student, whatever *)
(* their status; a StartSession of a student whose session on the exam is  *)
(* Finished or Timeout creates no second one.                              *)
C39_OneSessionPerExamAndStudent ==
    \A i, j \in SessionIds :
        (Committed(i) /\ Committed(j) /\ sessions[i].exam = sessions[j].exam /\ sessions[i].student = sessions[j].student) => i = j

(* A StartSession has reached its INSERT and come back without a session   *)
(* while the student's one session on the exam is Finished or Timeout.     *)
C39_Witness ==
    \E c \in DOMAIN calls :
        /\ calls[c].op = "StartSession" /\ calls[c].pc = "done"
        /\ calls[c].msg = "failed to start session: failed to create session"
        /\ \E i \in SessionIds : /\ Committed(i) /\ sessions[i].status \in Terminal
                                 /\ sessions[i].exam = calls[c].exam /\ sessions[i].student = calls[c].student
        /\ Cardinality({i \in SessionIds : sessions[i].exam = calls[c].exam /\ sessions[i].student = calls[c].student}) = 1

---------------------------------------------------------------------------
(* The exam service: outcomes of ActivateExam and DeactivateExam.          *)

(* The state an exam must be in for the operation to go ahead.             *)
RequiredState(op) == IF op = "ActivateExam" THEN ExamStateCreated ELSE ExamStateActive

(* C35: an ActivateExam call that succeeds changes an exam that is         *)
(* Created, a DeactivateExam call that succeeds one that is Active; a call *)
(* for an exam in any other state ends with FailedPrecondition, a call for *)
(* a missing exam with NotFound, and a call that fails leaves the stored   *)
(* exam states as they were.                                               *)
C35_ExamCallsCheckState ==
    [][\A c \in DOMAIN calls :
          (calls'[c].op \in {"ActivateExam", "DeactivateExam"} /\ calls[c].pc # "done" /\ calls'[c].pc = "done") =>
              /\ calls'[c].code = OK => exams[calls'[c].exam] = RequiredState(calls'[c].op)
              /\ calls'[c].code # OK => exams' = exams
              /\ (calls[c].pc = "idle" /\ exams[calls'[c].exam] = NoExam) => calls'[c].code = NotFound
              /\ (calls[c].pc = "idle" /\ exams[calls'[c].exam] \notin {NoExam, RequiredState(calls'[c].op)})
                     => calls'[c].code = FailedPrecondition]_vars

---------------------------------------------------------------------------
(* The ledger and the status of a session.                                 *)

(* C36: in every state of the store a committed session in Started has no  *)
(* stored answer and one in InProgress has at least one, also when a store *)
(* failure cuts a SubmitAnswer short after its upsert or status update.    *)
C36_StatusMatchesLedger ==
    \A i \in SessionIds : Committed(i) =>
        /\ sessions[i].status = SessionStatusStarted => LedgerOf(answers, i) = {}
        /\ sessions[i].status = SessionStatusInProgress => LedgerOf(answers, i) # {}

(* A SubmitAnswer on the Started session was cut short by a store failure  *)
(* after its upsert, a second one has run its status update and returned:  *)
(* the session is Started and its ledger is empty.                         *)
C36_Witness ==
    \E c, d \in DOMAIN calls :
        /\ c # d
        /\ calls[c].op = "SubmitAnswer" /\ calls[c].pc = "done" /\ calls[c].seen = SessionStatusStarted
        /\ calls[d].op = "SubmitAnswer" /\ calls[d].pc = "done" /\ calls[d].seen = SessionStatusStarted
        /\ calls[c].session = calls[d].session
        /\ calls[c].code = Internal /\ calls[d].code = Internal
        /\ sessions[calls[c].session].status = SessionStatusStarted
        /\ LedgerOf(answers, calls[c].session) = {}

---------------------------------------------------------------------------
(* The end time of a session.                                              *)

(* A session row has an end time exactly when it is Finished or Timeout.   *)
EndedIffTerminal(row) == row.ended <=> row.status \in Terminal

FinishCalls(sid, code) == {c \in DOMAIN calls : calls[c].op = "FinishSession" /\ calls[c].session = sid /\ calls[c].pc = "done" /\ calls[c].code = code}

(* C38: for each session at most one FinishSession call has succeeded, and *)
(* once two FinishSession calls for a session that was live when they came *)
(* have all returned, one has succeeded and the others have failed with    *)
(* FailedPrecondition.                                                     *)
C38_OneFinishSucceeds ==
    \A sid \in SessionIds :
        /\ Cardinality(FinishCalls(sid, OK)) <= 1
        /\ (/\ \A c \in DOMAIN calls : calls[c].op = "FinishSession" /\ calls[c].session = sid /\ calls[c].pc = "done"
            /\ Cardinality(DOMAIN calls) >= 2
            /\ sessions[sid].status # SessionStatusTimeout)
               => /\ Cardinality(FinishCalls(sid, OK)) = 1
                  /\ Cardinality(FinishCalls(sid, FailedPrecondition)) = Cardinality(DOMAIN calls) - 1

---------------------------------------------------------------------------
(* Scoring and the status of the session.                                  *)

====
